---------------------------- MODULE Spec2Model ----------------------------
(***************************************************************************)
(* A model of the aprendo vocabulary trainer: the CSV normalisation tool   *)
(* (tools/etl_csv.py), the in-memory translation store                     *)
(* (app/aprendo/translations/csv.py), the translation quiz page            *)
(* (app/aprendo/pages/translation.py) and the numbers exercise page        *)
(* (aprendo/pages/numbers.py).                                             *)
(*                                                                         *)
(* A Python str is a sequence of characters.  A character is a TLA+ string *)
(* naming one code point: ASCII characters stand for themselves, the other *)
(* letters are spelled out ("cy_a" is CYRILLIC SMALL LETTER A, "u_acute"   *)
(* is LATIN SMALL LETTER U WITH ACUTE), so that 'a' and Cyrillic 'a' stay  *)
(* different characters as they are in the source.                         *)
(***************************************************************************)
EXTENDS Integers, Sequences, FiniteSets, TLC

VARIABLES
    \* transform_csv (tools/etl_csv.py)
    etl_input,      \* the input file: [exists, lines], lines[1] the header row
    etl_pc,         \* position in transform_csv
    etl_i,          \* index in lines of the row the reader yields next
    etl_t,          \* index in transformations of the rule applied next
    current_pairs,  \* the working set of the row being transformed
    prev_pairs,     \* history: the working set before the rule applied last
    results,        \* the list results, before the final filter
    output,         \* the rows written to output_file_handler
    \* CsvTranslations (app/aprendo/translations/csv.py)
    csv_file,       \* translations.csv: [exists, lines], lines[1] the header row
    csv,            \* the CsvTranslations object: [cached, conn]
    built,          \* history: how the build of csv ended ("never" before it)
    last_call,      \* history: the last call of a method of csv and its outcome
    \* TranslationState (app/aprendo/pages/translation.py)
    direction,
    current_word,
    user_input,
    attempts,
    has_checked_translation,
    parsed_id_ranges,
    current_translation_id,
    last_event,     \* history: the last event handler run and its outcome
    translation_ranges,         \* the range string typed on the page
    translation_ranges_error,
    show_settings,
    \* TranslationSettingsDialog (app/aprendo/components/translation_settings_dialog.py)
    dialog,         \* [translation_ranges, translation_ranges_error, parsed_id_ranges]
    \* the thread-local caches of the two store accessors
    thread_state,   \* thread_state.csv of each module, in each thread
    constructed,    \* history: the number of CsvTranslations objects constructed
    last_use,       \* history: the last call of an accessor and the object it used
    \* NumbersState (aprendo/pages/numbers.py)
    current_number,
    user_answer,
    min_value,
    max_value,
    feedback,
    is_correct,
    history,
    number_event    \* history: the last event handler run, its argument and outcome

etlVars == <<etl_input, etl_pc, etl_i, etl_t, current_pairs, prev_pairs, results, output>>

storeVars == <<csv_file, csv, built, last_call>>

quizVars == <<direction, current_word, user_input, attempts, has_checked_translation,
              parsed_id_ranges, current_translation_id, last_event>>

rangeVars == <<translation_ranges, translation_ranges_error, show_settings, dialog>>

threadVars == <<thread_state, constructed, last_use>>

numberVars == <<current_number, user_answer, min_value, max_value, feedback, is_correct,
                history, number_event>>

-----------------------------------------------------------------------------
(* Bounds *)

\* the most data rows of an input file of transform_csv
MaxRows == 2

-----------------------------------------------------------------------------
(* Python str operations *)

Whitespace == {" "}

RECURSIVE LStrip(_)
LStrip(s) ==
    IF s # <<>> /\ Head(s) \in Whitespace THEN LStrip(Tail(s)) ELSE s

RECURSIVE RStrip(_)
RStrip(s) ==
    IF s # <<>> /\ s[Len(s)] \in Whitespace THEN RStrip(SubSeq(s, 1, Len(s) - 1)) ELSE s

\* str.strip()
Strip(s) == RStrip(LStrip(s))

\* s.startswith(prefix)
StartsWith(s, prefix) ==
    Len(prefix) <= Len(s) /\ SubSeq(s, 1, Len(prefix)) = prefix

\* s.endswith(suffix)
EndsWith(s, suffix) ==
    Len(suffix) <= Len(s) /\ SubSeq(s, Len(s) - Len(suffix) + 1, Len(s)) = suffix

\* the positions at which sub occurs in s
Occurrences(s, sub) ==
    {i \in 1..(Len(s) - Len(sub) + 1) : SubSeq(s, i, i + Len(sub) - 1) = sub}

\* sub in s
Contains(s, sub) == Occurrences(s, sub) # {}

Min(S) == CHOOSE x \in S : \A y \in S : x <= y

Max(S) == CHOOSE x \in S : \A y \in S : x >= y

\* s[:-n]
DropLast(s, n) == SubSeq(s, 1, Len(s) - n)

\* s.split(sep), sep non-empty
RECURSIVE Split(_, _)
Split(s, sep) ==
    IF ~Contains(s, sep) THEN <<s>>
    ELSE LET i == Min(Occurrences(s, sep))
         IN  <<SubSeq(s, 1, i - 1)>> \o Split(SubSeq(s, i + Len(sep), Len(s)), sep)

RECURSIVE Concat(_)
Concat(ss) == IF ss = <<>> THEN <<>> ELSE Head(ss) \o Concat(Tail(ss))

\* s.replace(sub, '')
Remove(s, sub) == Concat(Split(s, sub))

-----------------------------------------------------------------------------
(* The rules of tools/etl_csv.py.  A rule takes a pair <<spanish,          *)
(* bulgarian>> and returns None (NoMatch) or a list of pairs.              *)

NoMatch == [matched |-> FALSE, pairs |-> <<>>]

Match(ps) == [matched |-> TRUE, pairs |-> ps]

StripAll(words) == [i \in 1..Len(words) |-> Strip(words[i])]

\* the rule without the test of equal counts: zip() stops at the shorter side
split_by_delimiter_zip_shortest(delimiter, row) ==
    LET spanish == row[1]
        bulgarian == row[2]
        spanish_words == StripAll(Split(spanish, delimiter))
        bulgarian_words == StripAll(Split(bulgarian, delimiter))
    IN  IF ~Contains(spanish, delimiter) \/ ~Contains(bulgarian, delimiter) THEN NoMatch
        ELSE Match([i \in 1..Min({Len(spanish_words), Len(bulgarian_words)}) |->
                       <<spanish_words[i], bulgarian_words[i]>>])

split_by_delimiter(delimiter, row) ==
    LET spanish == row[1]
        bulgarian == row[2]
        spanish_words == StripAll(Split(spanish, delimiter))
        bulgarian_words == StripAll(Split(bulgarian, delimiter))
    IN  IF ~Contains(spanish, delimiter) \/ ~Contains(bulgarian, delimiter) THEN NoMatch
        ELSE IF Len(spanish_words) # Len(bulgarian_words) THEN NoMatch
        ELSE Match([i \in 1..Len(spanish_words) |-> <<spanish_words[i], bulgarian_words[i]>>])

split_by_slash(row) ==
    LET spanish == row[1]
        bulgarian == row[2]
        translations == StripAll(Split(bulgarian, <<"/">>))
    IN  IF ~Contains(bulgarian, <<"/">>) THEN NoMatch
        ELSE Match([i \in 1..Len(translations) |-> <<Strip(spanish), translations[i]>>])

\* the placeholder '-a' (Cyrillic a) of a feminine-only target
FemininePlaceholder == <<"-", "cy_a">>

\* the rule with the feminine form of the comma-dash shorthand made by adding
\* 'a' to the base
split_spanish_gender_suffix_appended(row) ==
    LET spanish == row[1]
        bulgarian == row[2]
    IN  IF bulgarian = FemininePlaceholder THEN NoMatch
        ELSE IF EndsWith(spanish, <<"o", "/", "a">>) THEN
            LET base == DropLast(spanish, 3)
            IN  Match(<< <<base \o <<"o">>, bulgarian>>, <<base \o <<"a">>, bulgarian>> >>)
        ELSE IF EndsWith(spanish, <<",", " ", "-", "a">>) THEN
            LET base == DropLast(spanish, 4)
            IN  Match(<< <<base, bulgarian>>, <<base \o <<"a">>, bulgarian>> >>)
        ELSE NoMatch

split_spanish_gender_suffix(row) ==
    LET spanish == row[1]
        bulgarian == row[2]
    IN  IF bulgarian = FemininePlaceholder THEN NoMatch
        ELSE IF EndsWith(spanish, <<"o", "/", "a">>) THEN
            LET base == DropLast(spanish, 3)
            IN  Match(<< <<base \o <<"o">>, bulgarian>>, <<base \o <<"a">>, bulgarian>> >>)
        ELSE IF EndsWith(spanish, <<",", " ", "-", "a">>) THEN
            LET base == DropLast(spanish, 4)
            IN  Match(<< <<base, bulgarian>>, <<DropLast(base, 1) \o <<"a">>, bulgarian>> >>)
        ELSE NoMatch

pronouns ==
    <<
      <<"y", "o", " ">>,
      <<"t", "u_acute", " ">>,
      <<"e_acute", "l", "/", "e", "l", "l", "a">>,
      <<"e_acute", "l", " ", "/", " ", "e", "l", "l", "a", " ", "/", " ", "u", "s", "t", "e", "d", " ">>,
      <<"n", "o", "s", "o", "t", "r", "o", "s", " ", "/", " ", "n", "o", "s", "o", "t", "r", "a", "s", " ">>,
      <<"v", "o", "s", "o", "t", "r", "o", "s", " ", "/", " ", "v", "o", "s", "o", "t", "r", "a", "s", " ">>,
      <<"e", "l", "l", "o", "s", " ", "/", " ", "e", "l", "l", "a", "s", " ", "/", " ", "u", "s", "t", "e", "d", "e", "s", " ">>,
      <<"n", "o", "s", "o", "t", "r", "o", "s", "/", "a", "s", " ">>,
      <<"v", "o", "s", "o", "t", "r", "o", "s", "/", "a", "s", " ">>,
      <<"e", "l", "l", "o", "s", "/", "a", "s", " ">> >>

bg_pronouns ==
    <<
      <<"cy_a", "cy_ze", " ">>,
      <<"cy_te", "cy_i", " ">>,
      <<"cy_te", "cy_o", "cy_short_i", " ", "/", " ", "cy_te", "cy_ya", " ", "/", " ", "cy_VE", "cy_i", "cy_ie">>,
      <<"cy_te", "cy_o", "cy_short_i", "/", "cy_te", "cy_ya">>,
      <<"cy_te", "cy_o", "cy_short_i", " ">>,
      <<"cy_te", "cy_ya", " ">>,
      <<"cy_VE", "cy_i", "cy_ie", " ">>,
      <<"cy_en", "cy_i", "cy_ie", " ">>,
      <<"cy_ve", "cy_i", "cy_ie", " ">>,
      <<"cy_te", "cy_ie", " ", "/", " ", "cy_VE", "cy_i", "cy_ie", " ", "(", "cy_em", "cy_en", ".", "cy_che", ".", ")", " ">>,
      <<"cy_te", "cy_ie", " ">>,
      <<"cy_VE", "cy_i", "cy_ie", " ", "(", "cy_em", "cy_en", ".", "cy_che", ".", ")", " ">> >>

\* the loop "for pronoun in ...: if s.startswith(pronoun): s = s[len(pronoun):]; break"
RECURSIVE RemoveFirstPrefix(_, _)
RemoveFirstPrefix(s, prefixes) ==
    IF prefixes = <<>> THEN s
    ELSE IF StartsWith(s, Head(prefixes)) THEN SubSeq(s, Len(Head(prefixes)) + 1, Len(s))
    ELSE RemoveFirstPrefix(s, Tail(prefixes))

clean_verb_conjugation(row) ==
    LET spanish == row[1]
        bulgarian == row[2]
        cleaned_spanish == RemoveFirstPrefix(spanish, pronouns)
        cleaned_bulgarian == RemoveFirstPrefix(bulgarian, bg_pronouns)
    IN  IF EndsWith(spanish, <<"r">>) THEN NoMatch
        ELSE IF cleaned_spanish = spanish /\ cleaned_bulgarian = bulgarian THEN NoMatch
        ELSE Match(<< <<Strip(cleaned_spanish), Strip(cleaned_bulgarian)>> >>)

split_by_comma(row) ==
    LET spanish == row[1]
        bulgarian == row[2]
        translations == StripAll(Split(bulgarian, <<",">>))
    IN  IF ~Contains(bulgarian, <<",">>) THEN NoMatch
        ELSE Match([i \in 1..Len(translations) |-> <<Strip(spanish), translations[i]>>])

\* the verb marker '/glagol' (in Cyrillic)
VerbMarker == <<"/", "cy_ghe", "cy_el", "cy_a", "cy_ghe", "cy_o", "cy_el">>

clean_verb_markers(row) ==
    LET spanish == row[1]
        bulgarian == row[2]
        cleaned == Strip(Remove(bulgarian, VerbMarker))
    IN  IF ~Contains(bulgarian, VerbMarker) THEN NoMatch
        ELSE Match(<< <<Strip(spanish), cleaned>> >>)

\* a cleanup that tests the trimmed words and returns them untrimmed
basic_cleanup_untrimmed(row) ==
    IF Strip(row[1]) = <<>> \/ Strip(row[2]) = <<>> THEN NoMatch
    ELSE Match(<< <<row[1], row[2]>> >>)

basic_cleanup(row) ==
    LET spanish == Strip(row[1])
        bulgarian == Strip(row[2])
    IN  IF spanish = <<>> \/ bulgarian = <<>> THEN NoMatch
        ELSE Match(<< <<spanish, bulgarian>> >>)

\* a chain that runs the two zip-splits before the gendered-suffix split
transformations_zip_first ==
    << "clean_verb_markers", "clean_verb_conjugation",
       "split_by_delimiter(',')", "split_by_delimiter('/')", "split_spanish_gender_suffix",
       "split_by_comma", "split_by_slash", "basic_cleanup" >>

\* the list transformations of main()
transformations ==
    << "clean_verb_markers", "clean_verb_conjugation", "split_spanish_gender_suffix",
       "split_by_delimiter(',')", "split_by_delimiter('/')",
       "split_by_comma", "split_by_slash", "basic_cleanup" >>

\* transform(pair), for a rule of the chain
Transform(rule, pair) ==
    CASE rule = "clean_verb_markers" -> clean_verb_markers(pair)
      [] rule = "clean_verb_conjugation" -> clean_verb_conjugation(pair)
      [] rule = "split_spanish_gender_suffix" -> split_spanish_gender_suffix(pair)
      [] rule = "split_by_delimiter(',')" -> split_by_delimiter(<<",">>, pair)
      [] rule = "split_by_delimiter('/')" -> split_by_delimiter(<<"/">>, pair)
      [] rule = "split_by_comma" -> split_by_comma(pair)
      [] rule = "split_by_slash" -> split_by_slash(pair)
      [] rule = "basic_cleanup" -> basic_cleanup(pair)

\* the inner loop: new_pairs after "for pair in current_pairs: ... extend(result)"
RECURSIVE ExtendAll(_, _, _)
ExtendAll(rule, pairs, new_pairs) ==
    IF pairs = <<>> THEN new_pairs
    ELSE LET result == Transform(rule, Head(pairs))
         IN  ExtendAll(rule, Tail(pairs),
                       IF result.matched THEN new_pairs \o result.pairs ELSE new_pairs)

\* a chain that carries the pairs a rule did not match forward
ApplyRuleKeepUnmatched(rule, pairs) ==
    Concat([i \in 1..Len(pairs) |->
               IF Transform(rule, pairs[i]).matched THEN Transform(rule, pairs[i]).pairs
               ELSE <<pairs[i]>>])

\* a round without the test "if new_pairs": the candidates always replace the
\* working set
ApplyRule_unguarded(rule, pairs) == ExtendAll(rule, pairs, <<>>)

\* one round of the outer loop: current_pairs after the rule
ApplyRule(rule, pairs) ==
    LET new_pairs == ExtendAll(rule, pairs, <<>>)
    IN  IF new_pairs # <<>> THEN new_pairs ELSE pairs

\* the targets the final filter removes: '-a' and 'a' (Cyrillic a)
NoiseTargets == {<<"-", "cy_a">>, <<"cy_a">>}

\* a filter that drops the target '-a' only
FilterResults_dash_only(rs) == SelectSeq(rs, LAMBDA r : r[2] # <<"-", "cy_a">>)

\* results = [r for r in results if r[1] not in ['-a', 'a']]
FilterResults(rs) == SelectSeq(rs, LAMBDA r : r[2] \notin NoiseTargets)

\* the header row the writer emits
OutputHeader == << <<"S", "p", "a", "n", "i", "s", "h">>, <<"B", "u", "l", "g", "a", "r", "i", "a", "n">> >>

-----------------------------------------------------------------------------
(* The inputs of transform_csv: data rows as csv.reader yields them.       *)

\* ('variado/a', 'разнообразен')
RowVariado ==
    << <<"v", "a", "r", "i", "a", "d", "o", "/", "a">>,
       <<"cy_er", "cy_a", "cy_ze", "cy_en", "cy_o", "cy_o", "cy_be", "cy_er", "cy_a", "cy_ze", "cy_ie", "cy_en">> >>

\* ('cansado, -a', 'уморен')
RowCansado ==
    << <<"c", "a", "n", "s", "a", "d", "o", ",", " ", "-", "a">>,
       <<"cy_u", "cy_em", "cy_o", "cy_er", "cy_ie", "cy_en">> >>

\* ('perro, gato', 'куче, котка')
RowPerroGato ==
    << <<"p", "e", "r", "r", "o", ",", " ", "g", "a", "t", "o">>,
       <<"cy_ka", "cy_u", "cy_che", "cy_ie", ",", " ", "cy_ka", "cy_o", "cy_te", "cy_ka", "cy_a">> >>

\* ('trabajo/a', 'работа/работя')
RowTrabajo ==
    << <<"t", "r", "a", "b", "a", "j", "o", "/", "a">>,
       <<"cy_er", "cy_a", "cy_be", "cy_o", "cy_te", "cy_a", "/", "cy_er", "cy_a", "cy_be", "cy_o", "cy_te", "cy_ya">> >>

\* ('hola', '')
RowEmptyTarget ==
    << <<"h", "o", "l", "a">>,
       <<>> >>

\* ('', 'да')
RowEmptySource ==
    << <<>>,
       <<"cy_de", "cy_a">> >>

\* (' ', ' ')
RowBlank ==
    << <<" ">>,
       <<" ">> >>

\* ('a', 'я, ')
RowTrailingComma ==
    << <<"a">>,
       <<"cy_ya", ",", " ">> >>

\* ('yo hablo', 'аз говоря')
RowPronoun ==
    << <<"y", "o", " ", "h", "a", "b", "l", "o">>,
       <<"cy_a", "cy_ze", " ", "cy_ghe", "cy_o", "cy_ve", "cy_o", "cy_er", "cy_ya">> >>

\* ('hablar', 'говоря/глагол')
RowMarker ==
    << <<"h", "a", "b", "l", "a", "r">>,
       <<"cy_ghe", "cy_o", "cy_ve", "cy_o", "cy_er", "cy_ya", "/", "cy_ghe", "cy_el", "cy_a", "cy_ghe", "cy_o", "cy_el">> >>

\* ('o/a', '-а')
RowPlaceholder ==
    << <<"o", "/", "a">>,
       <<"-", "cy_a">> >>

\* ('bueno, -a', 'добър, -а')
RowBueno ==
    << <<"b", "u", "e", "n", "o", ",", " ", "-", "a">>,
       <<"cy_de", "cy_o", "cy_be", "cy_hard_sign", "cy_er", ",", " ", "-", "cy_a">> >>

\* ('él/ella come', 'той/тя яде')
RowElElla ==
    << <<"e_acute", "l", "/", "e", "l", "l", "a", " ", "c", "o", "m", "e">>,
       <<"cy_te", "cy_o", "cy_short_i", "/", "cy_te", "cy_ya", " ", "cy_ya", "cy_de", "cy_ie">> >>

\* ('a/b', 'я/ю/е')
RowUnequal ==
    << <<"a", "/", "b">>,
       <<"cy_ya", "/", "cy_yu", "/", "cy_ie">> >>

\* (' hola ', ' да ')
RowPadded ==
    << <<" ", "h", "o", "l", "a", " ">>,
       <<" ", "cy_de", "cy_a", " ">> >>

\* ('a,b', 'я')
RowSourceComma ==
    << <<"a", ",", "b">>,
       <<"cy_ya">> >>

\* ('a', 'а')
RowNoiseA ==
    << <<"a">>,
       <<"cy_a">> >>

\* ('a', ',')
RowOnlyComma ==
    << <<"a">>,
       <<",">> >>

\* ('casa', 'дом')
RowPlain ==
    << <<"c", "a", "s", "a">>,
       <<"cy_de", "cy_o", "cy_em">> >>

\* ('solo',)
RowOneColumn ==
    << <<"s", "o", "l", "o">> >>

\* ('a', 'b', 'c')
RowThreeColumns ==
    << <<"a">>,
       <<"b">>,
       <<"c">> >>

RowPool ==
    {RowVariado, RowCansado, RowPerroGato, RowTrabajo,
     RowEmptyTarget, RowEmptySource, RowBlank, RowTrailingComma,
     RowPronoun, RowMarker, RowPlaceholder, RowBueno,
     RowElElla, RowUnequal, RowPadded, RowSourceComma,
     RowNoiseA, RowOnlyComma, RowPlain, RowOneColumn,
     RowThreeColumns}
\* the files transform_csv may be given: a missing file, an empty file, or a
\* header row followed by at most MaxRows data rows
\* the lists of at most n rows of a pool
RECURSIVE RowLists(_, _)
RowLists(pool, n) ==
    IF n = 0 THEN {<<>>}
    ELSE RowLists(pool, n - 1)
         \cup {Append(rs, r) : rs \in {x \in RowLists(pool, n - 1) : Len(x) = n - 1}, r \in pool}

InputFiles ==
    {[exists |-> FALSE, lines |-> <<>>], [exists |-> TRUE, lines |-> <<>>]}
    \cup {[exists |-> TRUE, lines |-> <<OutputHeader>> \o rs] : rs \in RowLists(RowPool, MaxRows)}

-----------------------------------------------------------------------------
(* transform_csv (tools/etl_csv.py:170-221) *)

EtlStart ==
    /\ etl_input \in InputFiles
    /\ etl_pc = "start"
    /\ etl_i = 1
    /\ etl_t = 1
    /\ current_pairs = <<>>
    /\ prev_pairs = <<>>
    /\ results = <<>>
    /\ output = <<>>

\* lines 183-192: the existence check, open, and next(reader) skipping the header
EtlOpen ==
    /\ etl_pc = "start"
    /\ etl_pc' = IF ~etl_input.exists THEN "FileNotFoundError"
                 ELSE IF etl_input.lines = <<>> THEN "StopIteration"
                 ELSE "rows"
    /\ etl_i' = 2
    /\ UNCHANGED <<etl_input, etl_t, current_pairs, prev_pairs, results, output>>
    /\ UNCHANGED <<storeVars, quizVars, rangeVars, threadVars, numberVars>>

\* a skip test that lets the rows of more than two columns through
RowSkipped_short(row) == Len(row) < 2

\* lines 195-196: "if len(row) != 2: continue"
RowSkipped(row) == Len(row) # 2

\* lines 194-199: the reader yields a row; a row without two columns is skipped
EtlNextRow ==
    /\ etl_pc = "rows"
    /\ etl_i <= Len(etl_input.lines)
    /\ LET row == etl_input.lines[etl_i]
       IN  IF RowSkipped(row)
           THEN /\ etl_i' = etl_i + 1
                /\ UNCHANGED <<etl_pc, etl_t, current_pairs, prev_pairs>>
           ELSE /\ current_pairs' = << <<row[1], row[2]>> >>
                /\ prev_pairs' = <<>>
                /\ etl_t' = 1
                /\ etl_pc' = "chain"
                /\ UNCHANGED etl_i
    /\ UNCHANGED <<etl_input, results, output>>
    /\ UNCHANGED <<storeVars, quizVars, rangeVars, threadVars, numberVars>>

\* lines 202-210: one rule applied to every pair of the working set
EtlApplyTransform ==
    /\ etl_pc = "chain"
    /\ etl_t <= Len(transformations)
    /\ prev_pairs' = current_pairs
    /\ current_pairs' = ApplyRule(transformations[etl_t], current_pairs)
    /\ etl_t' = etl_t + 1
    /\ UNCHANGED <<etl_input, etl_pc, etl_i, results, output>>
    /\ UNCHANGED <<storeVars, quizVars, rangeVars, threadVars, numberVars>>

\* line 212: results.extend(current_pairs)
EtlEndRow ==
    /\ etl_pc = "chain"
    /\ etl_t > Len(transformations)
    /\ results' = results \o current_pairs
    /\ etl_i' = etl_i + 1
    /\ etl_pc' = "rows"
    /\ UNCHANGED <<etl_input, etl_t, current_pairs, prev_pairs, output>>
    /\ UNCHANGED <<storeVars, quizVars, rangeVars, threadVars, numberVars>>

\* lines 214-221: the final filter and the writer
EtlWrite ==
    /\ etl_pc = "rows"
    /\ etl_i > Len(etl_input.lines)
    /\ output' = <<OutputHeader>> \o FilterResults(results)
    /\ etl_pc' = "done"
    /\ UNCHANGED <<etl_input, etl_i, etl_t, current_pairs, prev_pairs, results>>
    /\ UNCHANGED <<storeVars, quizVars, rangeVars, threadVars, numberVars>>

EtlNext ==
    \/ EtlOpen
    \/ EtlNextRow
    \/ EtlApplyTransform
    \/ EtlEndRow
    \/ EtlWrite

-----------------------------------------------------------------------------
(* CsvTranslations (app/aprendo/translations/csv.py) *)

Langs == {"es", "bg"}

\* self._conn = None
NoConn == [open |-> FALSE, spanish_words |-> {}, bulgarian_words |-> {}, translations |-> {}]

\* the connection after _init_db: three empty tables
init_db == [open |-> TRUE, spanish_words |-> {}, bulgarian_words |-> {}, translations |-> {}]

\* a row id that starts at 0
NextRowIdZeroBased(table) ==
    IF table = {} THEN 0 ELSE Max({r.id : r \in table}) + 1

\* the id SQLite gives a new row of a table with id INTEGER PRIMARY KEY
NextRowId(table) ==
    IF table = {} THEN 1 ELSE Max({r.id : r \in table}) + 1

\* INSERT OR IGNORE INTO <lang>_words (word) VALUES (?), word being UNIQUE
InsertOrIgnoreWord(table, word) ==
    IF \E r \in table : r.word = word THEN table
    ELSE table \cup {[id |-> NextRowId(table), word |-> word]}

\* SELECT id FROM <lang>_words WHERE word = ?
WordId(table, word) == (CHOOSE r \in table : r.word = word).id

\* an INSERT that no unique index stops
InsertTranslation(translations, spanish_id, bulgarian_id) ==
    translations \cup {[id |-> NextRowId(translations),
                        spanish_id |-> spanish_id, bulgarian_id |-> bulgarian_id]}

\* INSERT OR IGNORE INTO translations (spanish_id, bulgarian_id) VALUES (?, ?),
\* under the unique index idx_translations
InsertOrIgnoreTranslation(translations, spanish_id, bulgarian_id) ==
    IF \E r \in translations : r.spanish_id = spanish_id /\ r.bulgarian_id = bulgarian_id
    THEN translations
    ELSE translations \cup {[id |-> NextRowId(translations),
                             spanish_id |-> spanish_id, bulgarian_id |-> bulgarian_id]}

\* the body of the loop without the "continue" for a blank side
LoadRow_keeps_blank(db, row) ==
    LET spanish == Strip(row[1])
        bulgarian == Strip(row[2])
        spanish_words == InsertOrIgnoreWord(db.spanish_words, spanish)
        bulgarian_words == InsertOrIgnoreWord(db.bulgarian_words, bulgarian)
    IN  [db EXCEPT !.spanish_words = spanish_words,
                   !.bulgarian_words = bulgarian_words,
                   !.translations = InsertOrIgnoreTranslation(
                       db.translations,
                       WordId(spanish_words, spanish),
                       WordId(bulgarian_words, bulgarian))]

\* the body of the loop of load_translations for a row of two columns
LoadRow(db, row) ==
    LET spanish == Strip(row[1])
        bulgarian == Strip(row[2])
        spanish_words == InsertOrIgnoreWord(db.spanish_words, spanish)
        bulgarian_words == InsertOrIgnoreWord(db.bulgarian_words, bulgarian)
    IN  IF spanish = <<>> \/ bulgarian = <<>> THEN db
        ELSE [db EXCEPT !.spanish_words = spanish_words,
                        !.bulgarian_words = bulgarian_words,
                        !.translations = InsertOrIgnoreTranslation(
                            db.translations,
                            WordId(spanish_words, spanish),
                            WordId(bulgarian_words, bulgarian))]

\* the loop of load_translations inside "with self._conn": a row that does not
\* unpack into two columns raises ValueError and the transaction is rolled back
RECURSIVE LoadRows(_, _)
LoadRows(db, rows) ==
    IF rows = <<>> THEN [conn |-> db, raised |-> "none"]
    ELSE IF Len(Head(rows)) # 2 THEN [conn |-> init_db, raised |-> "ValueError"]
    ELSE LoadRows(LoadRow(db, Head(rows)), Tail(rows))

\* load_translations without the exit for a store that is already loaded
load_translations_reload(conn, file) ==
    IF ~file.exists THEN [conn |-> init_db, raised |-> "FileNotFoundError"]
    ELSE IF file.lines = <<>> THEN [conn |-> init_db, raised |-> "StopIteration"]
    ELSE LoadRows(init_db, Tail(file.lines))

\* load_translations: the connection afterwards and the exception raised
load_translations(conn, file) ==
    IF conn.open THEN [conn |-> conn, raised |-> "none"]
    ELSE IF ~file.exists THEN [conn |-> init_db, raised |-> "FileNotFoundError"]
    ELSE IF file.lines = <<>> THEN [conn |-> init_db, raised |-> "StopIteration"]
    ELSE LoadRows(init_db, Tail(file.lines))

\* the orders in which a query may return the rows of a finite set
Perms(S) ==
    {p \in [1..Cardinality(S) -> S] : \A i, j \in 1..Cardinality(S) : i # j => p[i] # p[j]}

WordTable(db, lang) == IF lang = "es" THEN db.spanish_words ELSE db.bulgarian_words

OtherLang(lang) == IF lang = "es" THEN "bg" ELSE "es"

\* the word id of a translations row on the side of a language
SideId(tr, lang) == IF lang = "es" THEN tr.spanish_id ELSE tr.bulgarian_id

\* the rows of "<source>_words JOIN translations JOIN <target>_words"
JoinRows(db, source_lang) ==
    {[id |-> x[2].id, source_id |-> x[1].id, source_word |-> x[1].word, target_word |-> x[3].word] :
        x \in {y \in WordTable(db, source_lang) \X db.translations \X WordTable(db, OtherLang(source_lang)) :
                  /\ SideId(y[2], source_lang) = y[1].id
                  /\ SideId(y[2], OtherLang(source_lang)) = y[3].id}}

\* the query of get_translations without its ORDER BY: the rows come as the
\* scan of translations yields them, by link id
get_translations_unordered(db, source_lang) ==
    {[i \in 1..Len(p) |-> <<p[i].id, p[i].source_word, p[i].target_word>>] :
        p \in {q \in Perms(JoinRows(db, IF source_lang = "es" THEN "es" ELSE "bg")) :
                  \A i, j \in 1..Len(q) : i < j => q[i].id < q[j].id}}

\* get_translations: the list it returns (as a set of one list), ORDER BY the
\* source word's id.  The query scans translations by rowid and sorts the rows
\* with a stable sorter, so the links of one source word come by link id, and
\* the same on every call.
get_translations(db, source_lang) ==
    {[i \in 1..Len(p) |-> <<p[i].id, p[i].source_word, p[i].target_word>>] :
        p \in {q \in Perms(JoinRows(db, IF source_lang = "es" THEN "es" ELSE "bg")) :
                  \A i, j \in 1..Len(q) :
                      i < j => \/ q[i].source_id < q[j].source_id
                               \/ q[i].source_id = q[j].source_id /\ q[i].id < q[j].id}}

\* the lookup query without its WHERE clause
get_word_translations_unfiltered(db, from_lang, word) ==
    {[i \in 1..Len(p) |-> p[i].target_word] : p \in Perms(JoinRows(db, from_lang))}

\* get_bulgarian_translations / get_spanish_translations: the lists the lookup
\* of a word of from_lang may return (the query states no order)
get_word_translations(db, from_lang, word) ==
    {[i \in 1..Len(p) |-> p[i].target_word] :
        p \in Perms({r \in JoinRows(db, from_lang) : r.source_word = word})}

\* id_ranges = None
NoRanges == [given |-> FALSE, ranges |-> <<>>]

\* the WHERE condition built from id_ranges
InRanges(id, ranges) ==
    \E i \in 1..Len(ranges) :
        IF ranges[i].start = ranges[i].end THEN id = ranges[i].start
        ELSE ranges[i].start <= id /\ id <= ranges[i].end

\* the rows of "<lang>_words JOIN translations t": the row's t.id and word
WordRows(db, source_lang) ==
    {[id |-> x[2].id, word |-> x[1].word] :
        x \in {y \in WordTable(db, source_lang) \X db.translations :
                  SideId(y[2], source_lang) = y[1].id}}

\* a call that returns a str; row is the id of the translations row the query
\* selected (0 when the row is of a word table), which the caller does not get
ReturnsWord(word, row) == [raised |-> "none", ret |-> [kind |-> "str", word |-> word], row |-> row]

Raises(exception) == [raised |-> exception, ret |-> [kind |-> "none"], row |-> 0]

\* get_word_for_translation(source_lang, id_ranges): its possible outcomes,
\* one for each row ORDER BY RANDOM() LIMIT 1 may select
get_word_for_translation(db, source_lang, id_ranges) ==
    LET lang == IF source_lang = "es" THEN "es" ELSE "bg"
        rows == WordRows(db, lang)
        ranged == {r \in rows : InRanges(r.id, id_ranges.ranges)}
    IN  IF id_ranges.given /\ id_ranges.ranges # <<>> /\ ranged # {}
        THEN {ReturnsWord(r.word, r.id) : r \in ranged}
        ELSE IF rows # {} THEN {ReturnsWord(r.word, r.id) : r \in rows}
        ELSE IF WordTable(db, lang) # {} THEN {ReturnsWord(w.word, 0) : w \in WordTable(db, lang)}
        ELSE {Raises("TypeError: 'NoneType' object is not subscriptable")}

\* the positional parameters of get_word_for_translation after self
GetWordParameters == 2

\* the call csv.get_word_for_translation(source_lang, id_ranges[, excluded]):
\* binding the arguments, then the body
CallGetWord(conn, source_lang, id_ranges, excluded) ==
    IF 2 + (IF excluded.passed THEN 1 ELSE 0) > GetWordParameters
    THEN {Raises("TypeError: takes from 2 to 3 positional arguments but 4 were given")}
    ELSE IF ~conn.open THEN {Raises("AttributeError: 'NoneType' object has no attribute 'execute'")}
    ELSE get_word_for_translation(conn, source_lang, id_ranges)

-----------------------------------------------------------------------------
(* The inputs of the store: translations.csv and the arguments of calls *)

\* the most data rows of translations.csv
MaxFileRows == 3

FileHeader == << <<"S", "p", "a", "n", "i", "s", "h">>, <<"B", "u", "l", "g", "a", "r", "i", "a", "n">> >>

\* data rows as csv.reader yields them: ("a", "x"), the same pair padded
\* (" a", "x "), a second target and a second source of a word, a row with an
\* empty column, and a row of one column
StoreRowPool ==
    { << <<"a">>, <<"x">> >>,
      << <<" ", "a">>, <<"x", " ">> >>,
      << <<"a">>, <<"y">> >>,
      << <<"b">>, <<"x">> >>,
      << <<"a">>, <<>> >>,
      << <<"a">> >> }

StoreFiles ==
    {[exists |-> FALSE, lines |-> <<>>], [exists |-> TRUE, lines |-> <<>>]}
    \cup {[exists |-> TRUE, lines |-> <<FileHeader>> \o rs] : rs \in RowLists(StoreRowPool, MaxFileRows)}

IdRange(start, end) == [start |-> start, end |-> end]

\* values of the argument id_ranges: None, [] and lists of TranslationIdRange
RangeArgs ==
    {NoRanges, [given |-> TRUE, ranges |-> <<>>]}
    \cup {[given |-> TRUE, ranges |-> rs] :
            rs \in {<<IdRange(1, 1)>>, <<IdRange(2, 3)>>, <<IdRange(1, 1), IdRange(3, 3)>>,
                    <<IdRange(5, 6)>>}}

\* values of a third argument (the ids to exclude), when one is passed
ExcludedArgs ==
    {[passed |-> FALSE, ids |-> {}]}
    \cup {[passed |-> TRUE, ids |-> ids] : ids \in {{1}}}

\* words looked up
LookupWords == {<<"a">>, <<"x">>, <<" ", "a">>, <<"z">>}

NoCall == [op |-> "none", args |-> <<>>, raised |-> "none", ret |-> [kind |-> "none"], row |-> 0]

\* a query on a store whose _conn is None
NoConnError == "AttributeError: 'NoneType' object has no attribute 'execute'"

-----------------------------------------------------------------------------
(* Calls of the methods of a constructed CsvTranslations *)

\* CsvTranslations(csv_path) (csv.py:15-17), nothing loaded yet
StoreStart ==
    /\ csv_file \in StoreFiles
    /\ csv = [cached |-> TRUE, conn |-> NoConn]
    /\ built = "never"
    /\ last_call = NoCall

LoadTranslations ==
    /\ csv.cached
    /\ LET r == load_translations(csv.conn, csv_file)
       IN  /\ csv' = [csv EXCEPT !.conn = r.conn]
           /\ built' = IF csv.conn.open THEN built
                       ELSE IF r.raised = "none" THEN "complete" ELSE r.raised
           /\ last_call' = [op |-> "load_translations", args |-> <<>>, raised |-> r.raised,
                            ret |-> [kind |-> "none"], row |-> 0]
    /\ UNCHANGED <<csv_file, etlVars, quizVars, rangeVars, threadVars, numberVars>>

GetTranslations ==
    /\ csv.cached
    /\ \E source_lang \in Langs :
         IF ~csv.conn.open
         THEN last_call' = [op |-> "get_translations", args |-> <<source_lang, OtherLang(source_lang)>>,
                            raised |-> NoConnError, ret |-> [kind |-> "none"], row |-> 0]
         ELSE \E res \in get_translations(csv.conn, source_lang) :
                last_call' = [op |-> "get_translations", args |-> <<source_lang, OtherLang(source_lang)>>,
                              raised |-> "none", ret |-> [kind |-> "list", list |-> res], row |-> 0]
    /\ UNCHANGED <<csv_file, csv, built, etlVars, quizVars, rangeVars, threadVars, numberVars>>

\* get_bulgarian_translations(word) (from_lang = "es") and
\* get_spanish_translations(word) (from_lang = "bg")
GetWordTranslations ==
    /\ csv.cached
    /\ \E from_lang \in Langs, word \in LookupWords :
         LET op == IF from_lang = "es" THEN "get_bulgarian_translations" ELSE "get_spanish_translations"
         IN  IF ~csv.conn.open
             THEN last_call' = [op |-> op, args |-> <<word>>, raised |-> NoConnError,
                                ret |-> [kind |-> "none"], row |-> 0]
             ELSE \E res \in get_word_translations(csv.conn, from_lang, word) :
                    last_call' = [op |-> op, args |-> <<word>>, raised |-> "none",
                                  ret |-> [kind |-> "list", list |-> res], row |-> 0]
    /\ UNCHANGED <<csv_file, csv, built, etlVars, quizVars, rangeVars, threadVars, numberVars>>

GetWordForTranslation ==
    /\ csv.cached
    /\ \E source_lang \in Langs, id_ranges \in RangeArgs, excluded \in ExcludedArgs :
         \E o \in CallGetWord(csv.conn, source_lang, id_ranges, excluded) :
            last_call' = [op |-> "get_word_for_translation",
                          args |-> [source_lang |-> source_lang, id_ranges |-> id_ranges,
                                    excluded |-> excluded],
                          raised |-> o.raised, ret |-> o.ret, row |-> o.row]
    /\ UNCHANGED <<csv_file, csv, built, etlVars, quizVars, rangeVars, threadVars, numberVars>>

\* the most data rows of a translations.csv that replaces another
MaxRewriteRows == 1

\* the rows of the files written over translations.csv
RewriteRowPool == { << <<"a">>, <<"x">> >>, << <<"b">>, <<"x">> >>, << <<"a">> >> }

RewriteFiles ==
    {[exists |-> FALSE, lines |-> <<>>], [exists |-> TRUE, lines |-> <<>>]}
    \cup {[exists |-> TRUE, lines |-> <<FileHeader>> \o rs] : rs \in RowLists(RewriteRowPool, MaxRewriteRows)}

\* translations.csv is removed or written anew (by a run of tools/etl_csv.py,
\* say) during the lifetime of the store
RewriteFile ==
    /\ csv_file' \in RewriteFiles \ {csv_file}
    /\ UNCHANGED <<csv, built, last_call, etlVars, quizVars, rangeVars, threadVars, numberVars>>

StoreNext ==
    \/ LoadTranslations
    \/ GetTranslations
    \/ GetWordTranslations
    \/ GetWordForTranslation

-----------------------------------------------------------------------------
(* TranslationState (app/aprendo/pages/translation.py) *)

\* the most attempts a session records
MaxAttempts == 3

Directions == {"SP_TO_BG", "BG_TO_SP"}

\* values typed into the answer field
UserInputs == {<<>>, <<"x">>, <<"X", " ">>, <<"x", "x">>}

\* _translations(): the cached store, or a new CsvTranslations that is loaded
\* when the file exists and cached once load_translations has returned
page_translations(c, file) ==
    IF c.cached THEN [csv |-> c, raised |-> "none", built |-> FALSE]
    ELSE IF file.exists
    THEN LET r == load_translations(NoConn, file)
         IN  IF r.raised # "none" THEN [csv |-> c, raised |-> r.raised, built |-> TRUE]
             ELSE [csv |-> [cached |-> TRUE, conn |-> r.conn], raised |-> "none", built |-> TRUE]
    ELSE [csv |-> [cached |-> TRUE, conn |-> NoConn], raised |-> "none", built |-> FALSE]

\* the history variable built after a call of _translations()
BuiltAfter(tr) ==
    IF ~tr.built THEN built ELSE IF tr.raised = "none" THEN "complete" ELSE tr.raised

\* the fields of a TranslationState
QuizState ==
    [direction |-> direction, current_word |-> current_word, user_input |-> user_input,
     attempts |-> attempts, has_checked_translation |-> has_checked_translation,
     parsed_id_ranges |-> parsed_id_ranges, current_translation_id |-> current_translation_id]

\* an event handler's outcome: the state and the store afterwards, the
\* exception it ended with, and the call it made on the store
Outcome(q, tr, raised, call) == [q |-> q, tr |-> tr, raised |-> raised, call |-> call]

SamplerCall(source_lang, id_ranges, excluded, o) ==
    [op |-> "get_word_for_translation",
     args |-> [source_lang |-> source_lang, id_ranges |-> id_ranges, excluded |-> excluded],
     raised |-> o.raised, ret |-> o.ret, row |-> o.row]

\* "self._current_translation_id, self.current_word = <str>": a str unpacks
\* into its characters when it has exactly two
AssignSampled(q, o) ==
    [q EXCEPT !.current_translation_id = <<o.ret.word[1]>>,
              !.current_word = <<o.ret.word[2]>>,
              !.user_input = <<>>,
              !.has_checked_translation = FALSE]

\* next_word (translation.py:250-261)
next_word(q, c, file) ==
    LET source_lang == IF q.direction = "SP_TO_BG" THEN "es" ELSE "bg"
        used_translation_ids == {q.attempts[i].translation_id : i \in 1..Len(q.attempts)}
        excluded == [passed |-> TRUE, ids |-> used_translation_ids]
        tr == page_translations(c, file)
    IN  IF tr.raised # "none" THEN {Outcome(q, tr, tr.raised, NoCall)}
        ELSE {IF o.raised # "none"
                  THEN Outcome(q, tr, o.raised, SamplerCall(source_lang, q.parsed_id_ranges, excluded, o))
              ELSE IF Len(o.ret.word) # 2
                  THEN Outcome(q, tr, "ValueError: cannot unpack",
                               SamplerCall(source_lang, q.parsed_id_ranges, excluded, o))
              ELSE Outcome(AssignSampled(q, o), tr, "none",
                           SamplerCall(source_lang, q.parsed_id_ranges, excluded, o)) :
                o \in CallGetWord(tr.csv.conn, source_lang, q.parsed_id_ranges, excluded)}

\* str.lower() on the characters of the model
LowerChar(ch) == IF ch = "X" THEN "x" ELSE IF ch = "C" THEN "c" ELSE ch

Lower(s) == [i \in 1..Len(s) |-> LowerChar(s[i])]

\* difflib's find_longest_match: the longest common block, the earliest in a
\* and then the earliest in b among the longest
CommonBlocks(a, b) ==
    {x \in (1..Len(a)) \X (1..Len(b)) \X (1..Len(a)) :
        /\ x[1] + x[3] - 1 <= Len(a)
        /\ x[2] + x[3] - 1 <= Len(b)
        /\ SubSeq(a, x[1], x[1] + x[3] - 1) = SubSeq(b, x[2], x[2] + x[3] - 1)}

LongestMatch(a, b) ==
    CHOOSE x \in CommonBlocks(a, b) :
        \A y \in CommonBlocks(a, b) :
            \/ y[3] < x[3]
            \/ y[3] = x[3] /\ x[1] < y[1]
            \/ y[3] = x[3] /\ x[1] = y[1] /\ x[2] <= y[2]

\* the number of matching characters SequenceMatcher counts
RECURSIVE Matches(_, _)
Matches(a, b) ==
    IF CommonBlocks(a, b) = {} THEN 0
    ELSE LET x == LongestMatch(a, b)
         IN  x[3] + Matches(SubSeq(a, 1, x[1] - 1), SubSeq(b, 1, x[2] - 1))
                  + Matches(SubSeq(a, x[1] + x[3], Len(a)), SubSeq(b, x[2] + x[3], Len(b)))

\* SequenceMatcher(None, a, b).ratio() >= 0.8, the ratio being 2 * matches / (len(a) + len(b))
AlmostEqual(a, b) ==
    IF Len(a) + Len(b) = 0 THEN TRUE ELSE 10 * Matches(a, b) >= 4 * (Len(a) + Len(b))

\* ratio(a, b1) > ratio(a, b2)
RatioGreater(a, b1, b2) ==
    Matches(a, b1) * (Len(a) + Len(b2)) > Matches(a, b2) * (Len(a) + Len(b1))

\* the loop over expected that keeps the first translation of the greatest
\* ratio (none when every ratio is 0.0)
BestMatchIndex(a, expected) ==
    LET positive == {i \in 1..Len(expected) : Matches(a, Lower(expected[i])) > 0}
    IN  IF positive = {} THEN 0
        ELSE Min({i \in positive :
                    \A j \in positive : ~RatioGreater(a, Lower(expected[j]), Lower(expected[i]))})

\* the TranslationAttempt check_translation builds (diff_opcodes, which only
\* the rendering reads, left out)
Attempt(q, expected) ==
    LET user_input_lower == Strip(Lower(q.user_input))
        expected_lower == [i \in 1..Len(expected) |-> Lower(expected[i])]
        exact == {i \in 1..Len(expected) : expected_lower[i] = user_input_lower}
        best == BestMatchIndex(user_input_lower, expected)
        almost == best # 0 /\ AlmostEqual(user_input_lower, Lower(expected[best]))
    IN  IF q.user_input = <<>>
        THEN [translation_id |-> q.current_translation_id, source_word |-> q.current_word,
              user_translation |-> <<"(skipped)">>, is_correct |-> "incorrect",
              expected_translations |-> expected, matching_translation |-> <<>>]
        ELSE IF exact # {}
        THEN [translation_id |-> q.current_translation_id, source_word |-> q.current_word,
              user_translation |-> q.user_input, is_correct |-> "correct",
              expected_translations |-> expected, matching_translation |-> expected[Min(exact)]]
        ELSE [translation_id |-> q.current_translation_id, source_word |-> q.current_word,
              user_translation |-> q.user_input,
              is_correct |-> IF almost THEN "almost" ELSE "incorrect",
              expected_translations |-> expected,
              matching_translation |-> IF almost THEN expected[best] ELSE <<>>]

\* check_translation (translation.py:107-180)
check_translation(q, c, file) ==
    IF q.has_checked_translation THEN next_word(q, c, file)
    ELSE LET from_lang == IF q.direction = "SP_TO_BG" THEN "es" ELSE "bg"
             op == IF from_lang = "es" THEN "get_bulgarian_translations" ELSE "get_spanish_translations"
             tr == page_translations(c, file)
             call(raised, ret) == [op |-> op, args |-> <<q.current_word>>, raised |-> raised,
                                   ret |-> ret, row |-> 0]
         IN  IF tr.raised # "none" THEN {Outcome(q, tr, tr.raised, NoCall)}
             ELSE IF ~tr.csv.conn.open
             THEN {Outcome(q, tr, NoConnError, call(NoConnError, [kind |-> "none"]))}
             ELSE {Outcome([q EXCEPT !.attempts = <<Attempt(q, expected)>> \o q.attempts,
                                     !.has_checked_translation = TRUE],
                           tr, "none", call("none", [kind |-> "list", list |-> expected])) :
                     expected \in get_word_translations(tr.csv.conn, from_lang, q.current_word)}

\* change_direction (translation.py:102-105)
change_direction(q, c, file, new_direction) ==
    next_word([q EXCEPT !.direction = new_direction], c, file)

\* the variables after an event handler has ended with outcome o
Handled(handler, o) ==
    /\ direction' = o.q.direction
    /\ current_word' = o.q.current_word
    /\ user_input' = o.q.user_input
    /\ attempts' = o.q.attempts
    /\ has_checked_translation' = o.q.has_checked_translation
    /\ parsed_id_ranges' = o.q.parsed_id_ranges
    /\ current_translation_id' = o.q.current_translation_id
    /\ csv' = o.tr.csv
    /\ built' = BuiltAfter(o.tr)
    /\ last_call' = IF o.call.op = "none" THEN last_call ELSE o.call
    /\ last_event' = [handler |-> handler, raised |-> o.raised,
                      was_checked |-> has_checked_translation, attempts_before |-> Len(attempts)]
    /\ UNCHANGED <<csv_file, etlVars, rangeVars, threadVars, numberVars>>

NoEvent == [handler |-> "none", raised |-> "none", was_checked |-> TRUE, attempts_before |-> 0]

\* a new TranslationState (translation.py:69-78) in a thread without a store
QuizStart ==
    /\ direction = "SP_TO_BG"
    /\ current_word = <<>>
    /\ user_input = <<>>
    /\ attempts = <<>>
    /\ has_checked_translation = TRUE
    /\ parsed_id_ranges = NoRanges
    /\ current_translation_id = <<>>
    /\ last_event = NoEvent

CheckTranslation ==
    /\ Len(attempts) < MaxAttempts
    /\ \E o \in check_translation(QuizState, csv, csv_file) : Handled("check_translation", o)

NextWord ==
    \E o \in next_word(QuizState, csv, csv_file) : Handled("next_word", o)

ChangeDirection ==
    \E new_direction \in Directions :
        \E o \in change_direction(QuizState, csv, csv_file, new_direction) :
            Handled("change_direction", o)

\* set_user_input (translation.py:263-265)
SetUserInput ==
    /\ \E value \in UserInputs : user_input' = value
    /\ last_event' = [handler |-> "set_user_input", raised |-> "none",
                      was_checked |-> has_checked_translation, attempts_before |-> Len(attempts)]
    /\ UNCHANGED <<direction, current_word, attempts, has_checked_translation, parsed_id_ranges,
                   current_translation_id, storeVars, etlVars, rangeVars, threadVars, numberVars>>

\* the computed var translations (translation.py:88-95)
TranslationsVar ==
    LET tr == page_translations(csv, csv_file)
        call(raised, ret) == [op |-> "get_translations", args |-> <<"es", "bg">>, raised |-> raised,
                              ret |-> ret, row |-> 0]
    IN  /\ csv' = tr.csv
        /\ built' = BuiltAfter(tr)
        /\ IF tr.raised # "none" THEN last_call' = last_call
           ELSE IF ~tr.csv.conn.open THEN last_call' = call(NoConnError, [kind |-> "none"])
           ELSE \E res \in get_translations(tr.csv.conn, "es") :
                  last_call' = call("none", [kind |-> "list", list |-> res])
        /\ UNCHANGED <<csv_file, quizVars, etlVars, rangeVars, threadVars, numberVars>>

\* translations.csv is put in place: os.path.exists(csv_path)
\* (translation.py:28) is true from then on
CreateFile ==
    /\ ~csv_file.exists
    /\ csv_file' \in {f \in StoreFiles : f.exists}
    /\ UNCHANGED <<csv, built, last_call, etlVars, quizVars, rangeVars, threadVars, numberVars>>

QuizNext ==
    \/ CheckTranslation
    \/ NextWord
    \/ ChangeDirection
    \/ SetUserInput
    \/ TranslationsVar
    \/ CreateFile

-----------------------------------------------------------------------------
(* The id-range strings of the settings: TranslationState                    *)
(* (pages/translation.py:182-272) and TranslationSettingsDialog              *)
(* (components/translation_settings_dialog.py:33-107)                        *)

Digits == <<"0", "1", "2", "3", "4", "5", "6", "7", "8", "9">>

DigitValue(ch) == (CHOOSE i \in 1..10 : Digits[i] = ch) - 1

IsDigit(ch) == \E i \in 1..10 : Digits[i] = ch

\* the digits of int(): decimal digits, single underscores between them
IsDigitString(s) ==
    /\ s # <<>>
    /\ \A i \in 1..Len(s) : IsDigit(s[i]) \/ s[i] = "_"
    /\ IsDigit(s[1])
    /\ IsDigit(s[Len(s)])
    /\ \A i \in 1..(Len(s) - 1) : ~(s[i] = "_" /\ s[i + 1] = "_")

RECURSIVE DigitsValue(_)
DigitsValue(s) ==
    IF s = <<>> THEN 0
    ELSE IF s[Len(s)] = "_" THEN DigitsValue(DropLast(s, 1))
    ELSE 10 * DigitsValue(DropLast(s, 1)) + DigitValue(s[Len(s)])

\* int(s) raises ValueError unless s, stripped, is an optional sign and digits
IsInt(s) ==
    LET t == Strip(s)
    IN  IF t # <<>> /\ t[1] \in {"+", "-"} THEN IsDigitString(Tail(t)) ELSE IsDigitString(t)

\* int(s)
Int_(s) ==
    LET t == Strip(s)
    IN  IF t[1] = "-" THEN 0 - DigitsValue(Tail(t))
        ELSE IF t[1] = "+" THEN DigitsValue(Tail(t))
        ELSE DigitsValue(t)

\* str(n), n >= 0
RECURSIVE NatStr(_)
NatStr(n) == IF n < 10 THEN <<Digits[n + 1]>> ELSE NatStr(n \div 10) \o <<Digits[(n % 10) + 1]>>

\* str(n)
IntStr(n) == IF n < 0 THEN <<"-">> \o NatStr(0 - n) ELSE NatStr(n)

\* s.split(sep, 1)
SplitFirst(s, sep) ==
    IF ~Contains(s, sep) THEN <<s>>
    ELSE LET i == Min(Occurrences(s, sep))
         IN  <<SubSeq(s, 1, i - 1), SubSeq(s, i + Len(sep), Len(s))>>

\* the fixed parts of the error messages, each one element of the message
MsgInvalidFormat == "Invalid range format: "

MsgInvalidRange == "Invalid range: "

MsgExpectedFormat == ". Expected format: start-end"

MsgExpectedIntegers == ". Expected format: start-end with integer values."

MsgStartAfterEnd == ". Start must be less than or equal to end."

MsgNotPositive == ". IDs must be positive."

\* f'Invalid range: {start}-{end}<rule>'
RangeMessage(start, end, rule) ==
    <<MsgInvalidRange>> \o IntStr(start) \o <<"-">> \o IntStr(end) \o <<rule>>

\* what the body of the loop does with one element of ranges: "skip" for
\* an empty element, "error" with the message, or "range" with the
\* TranslationIdRange appended
TokenSkipped == [kind |-> "skip", err |-> <<>>, range |-> IdRange(0, 0)]

TokenError(err) == [kind |-> "error", err |-> err, range |-> IdRange(0, 0)]

TokenRange(start, end) == [kind |-> "range", err |-> <<>>, range |-> IdRange(start, end)]

\* the loop body with "start >= end" for the test of line 221
ParseRangeToken_strict(token) ==
    LET range_str == Strip(token)
        parts == SplitFirst(range_str, <<"-">>)
    IN  IF range_str = <<>> THEN TokenSkipped
        ELSE IF ~Contains(range_str, <<"-">>)
            THEN TokenError(<<MsgInvalidFormat>> \o range_str \o <<MsgExpectedFormat>>)
        ELSE IF ~IsInt(parts[1]) \/ ~IsInt(parts[2])
            THEN TokenError(<<MsgInvalidFormat>> \o range_str \o <<MsgExpectedIntegers>>)
        ELSE LET start == Int_(parts[1])
                 end == Int_(parts[2])
             IN  IF start >= end THEN TokenError(RangeMessage(start, end, MsgStartAfterEnd))
                 ELSE IF start <= 0 \/ end <= 0
                     THEN TokenError(RangeMessage(start, end, MsgNotPositive))
                 ELSE TokenRange(start, end)

\* the loop body with "continue" for an element without a dash
ParseRangeToken_lenient(token) ==
    LET range_str == Strip(token)
        parts == SplitFirst(range_str, <<"-">>)
    IN  IF range_str = <<>> THEN TokenSkipped
        ELSE IF ~Contains(range_str, <<"-">>)
            THEN TokenSkipped
        ELSE IF ~IsInt(parts[1]) \/ ~IsInt(parts[2])
            THEN TokenError(<<MsgInvalidFormat>> \o range_str \o <<MsgExpectedIntegers>>)
        ELSE LET start == Int_(parts[1])
                 end == Int_(parts[2])
             IN  IF start > end THEN TokenError(RangeMessage(start, end, MsgStartAfterEnd))
                 ELSE IF start <= 0 \/ end <= 0
                     THEN TokenError(RangeMessage(start, end, MsgNotPositive))
                 ELSE TokenRange(start, end)

\* the body of the loop of validate_translation_ranges for one element
\* (translation.py:205-234)
ParseRangeToken(token) ==
    LET range_str == Strip(token)
        parts == SplitFirst(range_str, <<"-">>)
    IN  IF range_str = <<>> THEN TokenSkipped
        ELSE IF ~Contains(range_str, <<"-">>)
            THEN TokenError(<<MsgInvalidFormat>> \o range_str \o <<MsgExpectedFormat>>)
        ELSE IF ~IsInt(parts[1]) \/ ~IsInt(parts[2])
            THEN TokenError(<<MsgInvalidFormat>> \o range_str \o <<MsgExpectedIntegers>>)
        ELSE LET start == Int_(parts[1])
                 end == Int_(parts[2])
             IN  IF start > end THEN TokenError(RangeMessage(start, end, MsgStartAfterEnd))
                 ELSE IF start <= 0 \/ end <= 0
                     THEN TokenError(RangeMessage(start, end, MsgNotPositive))
                 ELSE TokenRange(start, end)

\* the loop of validate_translation_ranges over ranges: it returns at the
\* first element in error, else it ends with temp_id_ranges
RECURSIVE ParseRangeTokens(_, _)
ParseRangeTokens(ranges, temp_id_ranges) ==
    IF ranges = <<>> THEN [ok |-> TRUE, err |-> <<>>, ranges |-> temp_id_ranges]
    ELSE LET r == ParseRangeToken(Head(ranges))
         IN  IF r.kind = "error" THEN [ok |-> FALSE, err |-> r.err, ranges |-> temp_id_ranges]
             ELSE IF r.kind = "skip" THEN ParseRangeTokens(Tail(ranges), temp_id_ranges)
             ELSE ParseRangeTokens(Tail(ranges), Append(temp_id_ranges, r.range))

\* the fields of TranslationState that the settings read and write
RangeState ==
    [translation_ranges |-> translation_ranges,
     translation_ranges_error |-> translation_ranges_error,
     parsed_id_ranges |-> parsed_id_ranges,
     show_settings |-> show_settings]

\* validate_translation_ranges that collects the ranges in self.parsed_id_ranges
\* instead of temp_id_ranges
validate_translation_ranges_partial(s) ==
    LET r == ParseRangeTokens(Split(s.translation_ranges, <<",">>), <<>>)
    IN  IF Strip(s.translation_ranges) = <<>>
        THEN [ret |-> TRUE, s |-> [s EXCEPT !.translation_ranges_error = <<>>,
                                            !.parsed_id_ranges = NoRanges]]
        ELSE IF ~r.ok
        THEN [ret |-> FALSE, s |-> [s EXCEPT !.translation_ranges_error = r.err,
                                             !.parsed_id_ranges = [given |-> TRUE, ranges |-> r.ranges]]]
        ELSE [ret |-> TRUE, s |-> [s EXCEPT !.translation_ranges_error = <<>>,
                                            !.parsed_id_ranges = [given |-> TRUE, ranges |-> r.ranges]]]

\* validate_translation_ranges (translation.py:182-239): the value returned
\* and the state afterwards
validate_translation_ranges(s) ==
    LET r == ParseRangeTokens(Split(s.translation_ranges, <<",">>), <<>>)
    IN  IF Strip(s.translation_ranges) = <<>>
        THEN [ret |-> TRUE, s |-> [s EXCEPT !.translation_ranges_error = <<>>,
                                            !.parsed_id_ranges = NoRanges]]
        ELSE IF ~r.ok
        THEN [ret |-> FALSE, s |-> [s EXCEPT !.translation_ranges_error = r.err]]
        ELSE [ret |-> TRUE, s |-> [s EXCEPT !.translation_ranges_error = <<>>,
                                            !.parsed_id_ranges = [given |-> TRUE, ranges |-> r.ranges]]]

\* apply_translation_ranges (translation.py:241-248)
apply_translation_ranges(s) ==
    LET v == validate_translation_ranges(s)
    IN  IF v.ret THEN [v.s EXCEPT !.translation_ranges_error = <<>>, !.show_settings = FALSE]
        ELSE v.s

\* set_translation_ranges (translation.py:267-272)
set_translation_ranges(s, value) ==
    [s EXCEPT !.translation_ranges = value, !.translation_ranges_error = <<>>]

\* the body of the loop of _validate_translation_ranges for one element
\* (translation_settings_dialog.py:67-96)
DialogParseRangeToken(token) ==
    LET range_str == Strip(token)
        parts == SplitFirst(range_str, <<"-">>)
    IN  IF range_str = <<>> THEN TokenSkipped
        ELSE IF ~Contains(range_str, <<"-">>)
            THEN TokenError(<<MsgInvalidFormat>> \o range_str \o <<MsgExpectedFormat>>)
        ELSE IF ~IsInt(parts[1]) \/ ~IsInt(parts[2])
            THEN TokenError(<<MsgInvalidFormat>> \o range_str \o <<MsgExpectedIntegers>>)
        ELSE LET start == Int_(parts[1])
                 end == Int_(parts[2])
             IN  IF start > end THEN TokenError(RangeMessage(start, end, MsgStartAfterEnd))
                 ELSE IF start <= 0 \/ end <= 0
                     THEN TokenError(RangeMessage(start, end, MsgNotPositive))
                 ELSE TokenRange(start, end)

RECURSIVE DialogParseRangeTokens(_, _)
DialogParseRangeTokens(ranges, temp_id_ranges) ==
    IF ranges = <<>> THEN [ok |-> TRUE, err |-> <<>>, ranges |-> temp_id_ranges]
    ELSE LET r == DialogParseRangeToken(Head(ranges))
         IN  IF r.kind = "error" THEN [ok |-> FALSE, err |-> r.err, ranges |-> <<>>]
             ELSE IF r.kind = "skip" THEN DialogParseRangeTokens(Tail(ranges), temp_id_ranges)
             ELSE DialogParseRangeTokens(Tail(ranges), Append(temp_id_ranges, r.range))

\* _validate_translation_ranges (translation_settings_dialog.py:46-99): the
\* tuple (success, err, parsed ranges) and the dialog afterwards
dialog_validate_translation_ranges(d) ==
    IF Strip(d.translation_ranges) = <<>>
    THEN [ret |-> [ok |-> TRUE, err |-> <<>>, ranges |-> <<>>],
          d |-> [d EXCEPT !.translation_ranges_error = <<>>]]
    ELSE [ret |-> DialogParseRangeTokens(Split(d.translation_ranges, <<",">>), <<>>), d |-> d]

\* apply_translation_ranges (translation_settings_dialog.py:101-107)
dialog_apply_translation_ranges(d) ==
    LET v == dialog_validate_translation_ranges(d)
    IN  IF v.ret.ok
        THEN [v.d EXCEPT !.translation_ranges_error = v.ret.err, !.parsed_id_ranges = v.ret.ranges]
        ELSE [v.d EXCEPT !.translation_ranges_error = v.ret.err]

\* set_translation_ranges (translation_settings_dialog.py:39-44)
dialog_set_translation_ranges(d, value) ==
    [d EXCEPT !.translation_ranges = value, !.translation_ranges_error = <<>>]

\* ', '.join(strs)
RECURSIVE Join(_, _)
Join(strs, sep) ==
    IF strs = <<>> THEN <<>>
    ELSE IF Len(strs) = 1 THEN strs[1]
    ELSE strs[1] \o sep \o Join(Tail(strs), sep)

\* TranslationIdRange.__str__ (types.py:20-21)
RangeStr(r) == IntStr(r.start) \o <<"-">> \o IntStr(r.end)

\* parsed_id_ranges_as_text (translation_settings_dialog.py:29-31)
parsed_id_ranges_as_text(d) ==
    Join([i \in 1..Len(d.parsed_id_ranges) |-> RangeStr(d.parsed_id_ranges[i])], <<",", " ">>)

\* close_translation_settings_dialog (translation_settings_dialog.py:33-37)
close_translation_settings_dialog(d) ==
    [d EXCEPT !.translation_ranges = parsed_id_ranges_as_text(d), !.translation_ranges_error = <<>>]

\* the most comma-separated elements of a range string built from RangeTokenPool
MaxRangeTokens == 2

\* elements of a range string: two valid ranges (one with start = end), an
\* element without dash, a non-integer bound, start > end, a bound of zero
RangeTokenPool ==
    { <<"1", "-", "2">>, <<"2", "-", "2">>, <<"5">>, <<"a", "-", "5">>,
      <<"5", "-", "2">>, <<"0", "-", "5">> }

\* further range strings: empty, blank, padded, with an empty element, of
\* two digits, signed, with a second dash, with a missing bound
ExtraRangeStrings ==
    { <<>>, <<" ">>, <<" ", "1", " ", "-", " ", "2", " ">>, <<"1", "-", "2", ",">>, <<",">>,
      <<"1", "0", "-", "1", "2">>, <<"0", "1", "-", "2">>, <<"+", "1", "-", "2">>,
      <<"-", "1", "-", "2">>, <<"1", "-", "-", "2">>, <<"1", "-", "2", "-", "3">>, <<"1", "-">>,
      <<"1", "_", "0", "-", "1", "_", "2">>, <<"0", "5", "-", "2">> }

\* the values typed into the range field
RangeStrings ==
    ExtraRangeStrings
    \cup {Join(ts, <<",">>) : ts \in RowLists(RangeTokenPool, MaxRangeTokens) \ {<<>>}}

\* the settings fields of a new TranslationState (translation.py:74-77)
NewRangeState ==
    [translation_ranges |-> <<>>, translation_ranges_error |-> <<>>,
     parsed_id_ranges |-> NoRanges, show_settings |-> FALSE]

\* a new TranslationSettingsDialog (translation_settings_dialog.py:16-19)
NewDialog ==
    [translation_ranges |-> <<>>, translation_ranges_error |-> <<>>, parsed_id_ranges |-> <<>>]

RangesStart ==
    /\ translation_ranges = NewRangeState.translation_ranges
    /\ translation_ranges_error = NewRangeState.translation_ranges_error
    /\ show_settings = NewRangeState.show_settings
    /\ dialog = NewDialog

\* the variables after a handler of TranslationState has left the settings
\* fields as s
RangeHandled(handler, s) ==
    /\ translation_ranges' = s.translation_ranges
    /\ translation_ranges_error' = s.translation_ranges_error
    /\ parsed_id_ranges' = s.parsed_id_ranges
    /\ show_settings' = s.show_settings
    /\ last_event' = [handler |-> handler, raised |-> "none",
                      was_checked |-> has_checked_translation, attempts_before |-> Len(attempts)]
    /\ UNCHANGED <<direction, current_word, user_input, attempts, has_checked_translation,
                   current_translation_id, dialog, storeVars, etlVars, threadVars, numberVars>>

SetTranslationRanges ==
    \E value \in RangeStrings :
        RangeHandled("set_translation_ranges", set_translation_ranges(RangeState, value))

ValidateTranslationRanges ==
    RangeHandled("validate_translation_ranges", validate_translation_ranges(RangeState).s)

ApplyTranslationRanges ==
    RangeHandled("apply_translation_ranges", apply_translation_ranges(RangeState))

\* the variables after a handler of TranslationSettingsDialog has left the
\* dialog as d
DialogHandled(handler, d) ==
    /\ dialog' = d
    /\ last_event' = [handler |-> handler, raised |-> "none",
                      was_checked |-> has_checked_translation, attempts_before |-> Len(attempts)]
    /\ UNCHANGED <<direction, current_word, user_input, attempts, has_checked_translation,
                   parsed_id_ranges, current_translation_id, translation_ranges,
                   translation_ranges_error, show_settings, storeVars, etlVars, threadVars, numberVars>>

DialogSetTranslationRanges ==
    \E value \in RangeStrings :
        DialogHandled("dialog.set_translation_ranges", dialog_set_translation_ranges(dialog, value))

DialogApplyTranslationRanges ==
    DialogHandled("dialog.apply_translation_ranges", dialog_apply_translation_ranges(dialog))

DialogCloseTranslationSettings ==
    DialogHandled("dialog.close_translation_settings_dialog", close_translation_settings_dialog(dialog))

\* the page and the dialog share no field: the handlers of each are run with
\* the other as constructed
RangesNext ==
    \/ dialog = NewDialog /\ SetTranslationRanges
    \/ dialog = NewDialog /\ ValidateTranslationRanges
    \/ dialog = NewDialog /\ ApplyTranslationRanges
    \/ RangeState = NewRangeState /\ DialogSetTranslationRanges
    \/ RangeState = NewRangeState /\ DialogApplyTranslationRanges
    \/ RangeState = NewRangeState /\ DialogCloseTranslationSettings

-----------------------------------------------------------------------------
(* The store accessors: _translations() (pages/translation.py:17-32) and     *)
(* translations() (translations/runtime.py:4-21), each with a thread-local   *)
(* cache of its own module                                                   *)

Threads == {"t1", "t2"}

\* the modules with a thread_state = threading.local()
Modules == {"pages.translation", "translations.runtime"}

\* thread_state has no attribute csv
NoStore == [cached |-> FALSE, conn |-> NoConn, id |-> 0]

NoUse == [thread |-> "none", module |-> "none", id |-> 0, raised |-> "none", returned |-> FALSE,
          constructed |-> FALSE]

ThreadsIdle ==
    /\ thread_state = [m \in Modules |-> [t \in Threads |-> NoStore]]
    /\ constructed = 0
    /\ last_use = NoUse

\* the most CsvTranslations objects constructed
MaxInstances == 4

\* translations() reading the data rows of the file from the last to the first
runtime_translations_reversed(c, file) ==
    LET rows == Tail(file.lines)
        reversed == [file EXCEPT !.lines = <<Head(file.lines)>> \o
                                           [i \in 1..Len(rows) |-> rows[Len(rows) + 1 - i]]]
    IN  IF c.cached THEN [csv |-> c, raised |-> "none", built |-> FALSE]
        ELSE IF file.exists /\ file.lines # <<>>
        THEN LET r == load_translations(NoConn, reversed)
             IN  IF r.raised # "none" THEN [csv |-> c, raised |-> r.raised, built |-> TRUE]
                 ELSE [csv |-> [cached |-> TRUE, conn |-> r.conn], raised |-> "none", built |-> TRUE]
        ELSE IF file.exists THEN [csv |-> c, raised |-> "StopIteration", built |-> TRUE]
        ELSE [csv |-> [cached |-> TRUE, conn |-> NoConn], raised |-> "none", built |-> FALSE]

\* translations() (runtime.py:9-21): the cached store, or a new
\* CsvTranslations that is loaded when the file exists and cached once
\* load_translations has returned
runtime_translations(c, file) ==
    IF c.cached THEN [csv |-> c, raised |-> "none", built |-> FALSE]
    ELSE IF file.exists
    THEN LET r == load_translations(NoConn, file)
         IN  IF r.raised # "none" THEN [csv |-> c, raised |-> r.raised, built |-> TRUE]
             ELSE [csv |-> [cached |-> TRUE, conn |-> r.conn], raised |-> "none", built |-> TRUE]
    ELSE [csv |-> [cached |-> TRUE, conn |-> NoConn], raised |-> "none", built |-> FALSE]

\* the accessor of a module
Accessor(module, c, file) ==
    IF module = "pages.translation" THEN page_translations(c, file)
    ELSE runtime_translations(c, file)

\* a call of the accessor of a module in a thread: the object it uses is the
\* cached one, or a new one, whose identity is its construction number
UseStore(module, thread) ==
    LET c == thread_state[module][thread]
        tr == Accessor(module, [cached |-> c.cached, conn |-> c.conn], csv_file)
        id == IF c.cached THEN c.id ELSE constructed + 1
    IN  /\ c.cached \/ constructed < MaxInstances
        /\ thread_state' =
              IF tr.csv.cached
              THEN [thread_state EXCEPT ![module][thread] =
                       [cached |-> TRUE, conn |-> tr.csv.conn, id |-> id]]
              ELSE thread_state
        /\ constructed' = IF c.cached THEN constructed ELSE constructed + 1
        /\ last_use' = [thread |-> thread, module |-> module, id |-> id, raised |-> tr.raised,
                        returned |-> tr.raised = "none", constructed |-> ~c.cached]
        /\ UNCHANGED <<storeVars, etlVars, quizVars, rangeVars, numberVars>>

\* a handler or var of TranslationState calls _translations()
\* (translation.py:95, 113-115, 259)
PageUse == \E thread \in Threads : UseStore("pages.translation", thread)

\* the var translations of TranslationSettingsDialog calls translations()
\* (translation_settings_dialog.py:21-27)
DialogUse == \E thread \in Threads : UseStore("translations.runtime", thread)

ThreadsNext ==
    \/ PageUse
    \/ DialogUse

-----------------------------------------------------------------------------
(* The CSV text between the tool and the store: csv.writer                   *)
(* (tools/etl_csv.py:219-221) and csv.reader (translations/csv.py:28-33)     *)

\* the characters that make csv.writer quote a field (QUOTE_MINIMAL)
CsvSpecial == {",", "\"", "\r", "\n"}

\* a field with every quote character doubled
RECURSIVE DoubleQuotes(_)
DoubleQuotes(s) ==
    IF s = <<>> THEN <<>>
    ELSE IF Head(s) = "\"" THEN <<"\"", "\"">> \o DoubleQuotes(Tail(s))
    ELSE <<Head(s)>> \o DoubleQuotes(Tail(s))

\* a field as the writer emits it
WriteField(field) ==
    IF \E i \in 1..Len(field) : field[i] \in CsvSpecial
    THEN <<"\"">> \o DoubleQuotes(field) \o <<"\"">>
    ELSE field

\* writer.writerow(row): the line without its terminator
WriteRow(row) == Join([i \in 1..Len(row) |-> WriteField(row[i])], <<",">>)

\* csv.reader on one line: the parser's state, the field being read and the
\* fields read so far
RECURSIVE ReadChars(_, _, _, _)
ReadChars(chars, state, field, fields) ==
    IF chars = <<>> THEN Append(fields, field)
    ELSE LET ch == Head(chars)
             rest == Tail(chars)
         IN  CASE state = "start_field" ->
                    IF ch = "\"" THEN ReadChars(rest, "in_quoted_field", field, fields)
                    ELSE IF ch = "," THEN ReadChars(rest, "start_field", <<>>, Append(fields, field))
                    ELSE ReadChars(rest, "in_field", Append(field, ch), fields)
               [] state = "in_field" ->
                    IF ch = "," THEN ReadChars(rest, "start_field", <<>>, Append(fields, field))
                    ELSE ReadChars(rest, "in_field", Append(field, ch), fields)
               [] state = "in_quoted_field" ->
                    IF ch = "\"" THEN ReadChars(rest, "quote_in_quoted_field", field, fields)
                    ELSE ReadChars(rest, "in_quoted_field", Append(field, ch), fields)
               [] OTHER ->
                    IF ch = "\"" THEN ReadChars(rest, "in_quoted_field", Append(field, ch), fields)
                    ELSE IF ch = "," THEN ReadChars(rest, "start_field", <<>>, Append(fields, field))
                    ELSE ReadChars(rest, "in_field", Append(field, ch), fields)

\* the row csv.reader yields for a line (no column for an empty line)
ReadRow(line) == IF line = <<>> THEN <<>> ELSE ReadChars(line, "start_field", <<>>, <<>>)

\* the rows read back from the file that holds the rows written
WrittenFile(rows) ==
    [exists |-> TRUE, lines |-> [i \in 1..Len(rows) |-> ReadRow(WriteRow(rows[i]))]]

\* the store is built from the output of transform_csv
PipelineLoad ==
    /\ etl_pc = "done"
    /\ ~csv.cached
    /\ csv_file' = WrittenFile(output)
    /\ LET r == load_translations(NoConn, csv_file')
       IN  /\ csv' = [cached |-> TRUE, conn |-> r.conn]
           /\ built' = IF r.raised = "none" THEN "complete" ELSE r.raised
           /\ last_call' = [op |-> "load_translations", args |-> <<>>, raised |-> r.raised,
                            ret |-> [kind |-> "none"], row |-> 0]
    /\ UNCHANGED <<etlVars, quizVars, rangeVars, threadVars, numberVars>>

\* a word of a pair that transform_csv wrote is looked up in the store:
\* get_bulgarian_translations(s) or get_spanish_translations(t)
PipelineLookup ==
    /\ csv.cached
    /\ csv.conn.open
    /\ \E i \in 2..Len(output), from_lang \in Langs :
         LET word == IF from_lang = "es" THEN output[i][1] ELSE output[i][2]
             op == IF from_lang = "es" THEN "get_bulgarian_translations" ELSE "get_spanish_translations"
         IN  \E res \in get_word_translations(csv.conn, from_lang, word) :
                last_call' = [op |-> op, args |-> <<word>>, raised |-> "none",
                              ret |-> [kind |-> "list", list |-> res], row |-> 0]
    /\ UNCHANGED <<csv_file, csv, built, etlVars, quizVars, rangeVars, threadVars, numberVars>>

PipelineNext ==
    \/ EtlNext
    \/ PipelineLoad
    \/ PipelineLookup

-----------------------------------------------------------------------------
(* NumbersState (aprendo/pages/numbers.py) *)

\* SPANISH_NUMBERS (numbers.py:6-17)
SPANISH_NUMBERS ==
    0 :> <<"c", "e", "r", "o">>
    @@ 1 :> <<"u", "n", "o">>
    @@ 2 :> <<"d", "o", "s">>
    @@ 3 :> <<"t", "r", "e", "s">>
    @@ 4 :> <<"c", "u", "a", "t", "r", "o">>
    @@ 5 :> <<"c", "i", "n", "c", "o">>
    @@ 6 :> <<"s", "e", "i", "s">>
    @@ 7 :> <<"s", "i", "e", "t", "e">>
    @@ 8 :> <<"o", "c", "h", "o">>
    @@ 9 :> <<"n", "u", "e", "v", "e">>
    @@ 10 :> <<"d", "i", "e", "z">>
    @@ 11 :> <<"o", "n", "c", "e">>
    @@ 12 :> <<"d", "o", "c", "e">>
    @@ 13 :> <<"t", "r", "e", "c", "e">>
    @@ 14 :> <<"c", "a", "t", "o", "r", "c", "e">>
    @@ 15 :> <<"q", "u", "i", "n", "c", "e">>
    @@ 16 :> <<"d", "i", "e", "c", "i", "s", "e_acute", "i", "s">>
    @@ 17 :> <<"d", "i", "e", "c", "i", "s", "i", "e", "t", "e">>
    @@ 18 :> <<"d", "i", "e", "c", "i", "o", "c", "h", "o">>
    @@ 19 :> <<"d", "i", "e", "c", "i", "n", "u", "e", "v", "e">>
    @@ 20 :> <<"v", "e", "i", "n", "t", "e">>
    @@ 21 :> <<"v", "e", "i", "n", "t", "i", "u", "n", "o">>
    @@ 22 :> <<"v", "e", "i", "n", "t", "i", "d", "o_acute", "s">>
    @@ 23 :> <<"v", "e", "i", "n", "t", "i", "t", "r", "e_acute", "s">>
    @@ 24 :> <<"v", "e", "i", "n", "t", "i", "c", "u", "a", "t", "r", "o">>
    @@ 25 :> <<"v", "e", "i", "n", "t", "i", "c", "i", "n", "c", "o">>
    @@ 26 :> <<"v", "e", "i", "n", "t", "i", "s", "e_acute", "i", "s">>
    @@ 27 :> <<"v", "e", "i", "n", "t", "i", "s", "i", "e", "t", "e">>
    @@ 28 :> <<"v", "e", "i", "n", "t", "i", "o", "c", "h", "o">>
    @@ 29 :> <<"v", "e", "i", "n", "t", "i", "n", "u", "e", "v", "e">>
    @@ 30 :> <<"t", "r", "e", "i", "n", "t", "a">>
    @@ 40 :> <<"c", "u", "a", "r", "e", "n", "t", "a">>
    @@ 50 :> <<"c", "i", "n", "c", "u", "e", "n", "t", "a">>
    @@ 60 :> <<"s", "e", "s", "e", "n", "t", "a">>
    @@ 70 :> <<"s", "e", "t", "e", "n", "t", "a">>
    @@ 80 :> <<"o", "c", "h", "e", "n", "t", "a">>
    @@ 90 :> <<"n", "o", "v", "e", "n", "t", "a">>

\* SPANISH_HUNDREDS (numbers.py:19-29)
SPANISH_HUNDREDS ==
    100 :> <<"c", "i", "e", "n">>
    @@ 200 :> <<"d", "o", "s", "c", "i", "e", "n", "t", "o", "s">>
    @@ 300 :> <<"t", "r", "e", "s", "c", "i", "e", "n", "t", "o", "s">>
    @@ 400 :> <<"c", "u", "a", "t", "r", "o", "c", "i", "e", "n", "t", "o", "s">>
    @@ 500 :> <<"q", "u", "i", "n", "i", "e", "n", "t", "o", "s">>
    @@ 600 :> <<"s", "e", "i", "s", "c", "i", "e", "n", "t", "o", "s">>
    @@ 700 :> <<"s", "e", "t", "e", "c", "i", "e", "n", "t", "o", "s">>
    @@ 800 :> <<"o", "c", "h", "o", "c", "i", "e", "n", "t", "o", "s">>
    @@ 900 :> <<"n", "o", "v", "e", "c", "i", "e", "n", "t", "o", "s">>

\* the largest number the exercise supports (numbers.py:53, 108, 157)
MaxNumber == 9999

Mil == <<"m", "i", "l">>

Ciento == <<"c", "i", "e", "n", "t", "o">>

\* a call of convert_to_spanish that returns a str
NumberText(text) == [raised |-> "none", text |-> text]

\* a lookup of a key that a dictionary does not have
NumberKeyError == [raised |-> "KeyError", text |-> <<>>]

\* f"{prefix} {self.convert_to_spanish(remainder)}"
PrefixTo(prefix, rest) ==
    IF rest.raised # "none" THEN rest ELSE NumberText(prefix \o <<" ">> \o rest.text)

\* convert_to_spanish (numbers.py:62-100); // and % round down as \div and % do
RECURSIVE convert_to_spanish(_)
convert_to_spanish(number) ==
    IF number >= 1000 THEN
        LET thousands == number \div 1000
            remainder == number % 1000
        IN  IF thousands # 1 /\ thousands \notin DOMAIN SPANISH_NUMBERS THEN NumberKeyError
            ELSE LET prefix == IF thousands = 1 THEN Mil
                               ELSE SPANISH_NUMBERS[thousands] \o <<" ">> \o Mil
                 IN  IF remainder = 0 THEN NumberText(prefix)
                     ELSE PrefixTo(prefix, convert_to_spanish(remainder))
    ELSE IF number >= 100 THEN
        LET hundreds == (number \div 100) * 100
            remainder == number % 100
        IN  IF hundreds = 100 /\ remainder > 0
            THEN PrefixTo(Ciento, convert_to_spanish(remainder))
            ELSE IF hundreds \notin DOMAIN SPANISH_HUNDREDS THEN NumberKeyError
            ELSE IF remainder = 0 THEN NumberText(SPANISH_HUNDREDS[hundreds])
            ELSE PrefixTo(SPANISH_HUNDREDS[hundreds], convert_to_spanish(remainder))
    ELSE IF number \in DOMAIN SPANISH_NUMBERS THEN NumberText(SPANISH_NUMBERS[number])
    ELSE LET tens == (number \div 10) * 10
             ones == number % 10
         IN  IF tens \notin DOMAIN SPANISH_NUMBERS THEN NumberKeyError
             ELSE IF ones = 0 THEN NumberText(SPANISH_NUMBERS[tens])
             ELSE IF ones \notin DOMAIN SPANISH_NUMBERS THEN NumberKeyError
             ELSE NumberText(SPANISH_NUMBERS[tens] \o <<" ", "y", " ">> \o SPANISH_NUMBERS[ones])

\* the fields of NumbersState (numbers.py:49-57)
NumbersState ==
    [current_number |-> current_number,
     user_answer |-> user_answer,
     min_value |-> min_value,
     max_value |-> max_value,
     feedback |-> feedback,
     is_correct |-> is_correct,
     history |-> history]

\* the state of a new NumbersState
NewNumbersState ==
    [current_number |-> 0,
     user_answer |-> <<>>,
     min_value |-> 0,
     max_value |-> MaxNumber,
     feedback |-> <<>>,
     is_correct |-> FALSE,
     history |-> <<>>]

\* generate_new_number (numbers.py:102-107), number being what
\* random.randint(self.min_value, self.max_value) returned
generate_new_number(s, number) ==
    [s EXCEPT !.current_number = number, !.user_answer = <<>>, !.feedback = <<>>,
              !.is_correct = FALSE]

\* set_current_number (numbers.py:109-119); int() raises ValueError for a
\* value that IsInt rejects
set_current_number(s, value) ==
    IF ~IsInt(value) THEN s
    ELSE IF 0 <= Int_(value) /\ Int_(value) <= MaxNumber
    THEN [s EXCEPT !.current_number = Int_(value), !.user_answer = <<>>, !.feedback = <<>>,
                   !.is_correct = FALSE]
    ELSE s

\* the fixed parts of the feedback, each one element of the text
MsgCorrecto == "!Correcto! "

MsgIncorrect == "Incorrect. The correct answer is: "

\* Attempt(number, user_input, correct_answer, is_correct) (numbers.py:41-46)
NumberAttempt(number, user_input_, correct_answer, correct) ==
    [number |-> number, user_input |-> user_input_, correct_answer |-> correct_answer,
     is_correct |-> correct]

\* check_answer (numbers.py:121-139): the exception raised and the state afterwards
check_answer(s) ==
    LET c == convert_to_spanish(s.current_number)
        correct == Strip(Lower(s.user_answer)) = c.text
    IN  IF c.raised # "none" THEN [raised |-> c.raised, s |-> s]
        ELSE [raised |-> "none",
              s |-> [s EXCEPT !.feedback = IF correct THEN <<MsgCorrecto>>
                                          ELSE <<MsgIncorrect>> \o c.text,
                              !.is_correct = correct,
                              !.history = <<NumberAttempt(s.current_number, Strip(Lower(s.user_answer)),
                                                          c.text, correct)>> \o s.history]]

\* handle_key_press (numbers.py:141-144)
handle_key_press(s, key) ==
    IF key = "Enter" /\ Strip(s.user_answer) # <<>> THEN check_answer(s)
    ELSE [raised |-> "none", s |-> s]

\* update_min with the test "0 <= new_min" alone
update_min_unchecked(s, value) ==
    IF ~IsInt(value) THEN s
    ELSE IF 0 <= Int_(value) THEN [s EXCEPT !.min_value = Int_(value)]
    ELSE s

\* update_min (numbers.py:146-153)
update_min(s, value) ==
    IF ~IsInt(value) THEN s
    ELSE IF 0 <= Int_(value) /\ Int_(value) <= s.max_value THEN [s EXCEPT !.min_value = Int_(value)]
    ELSE s

\* update_max (numbers.py:155-162)
update_max(s, value) ==
    IF ~IsInt(value) THEN s
    ELSE IF Int_(value) >= s.min_value /\ Int_(value) <= MaxNumber
    THEN [s EXCEPT !.max_value = Int_(value)]
    ELSE s

\* set_user_answer (numbers.py:164-166)
set_user_answer(s, value) == [s EXCEPT !.user_answer = value]

\* the most attempts the history of a session holds
MaxHistory == 1

\* strings typed into the three number fields: empty, a padded number of the
\* range, its upper end, a number above it, a negative one, one that is no
\* integer
NumberInputs ==
    { <<>>, <<" ", "5", " ">>, <<"9", "9", "9", "9">>, <<"1", "0", "0", "0", "0">>,
      <<"-", "1">>, <<"a", "b", "c">> }

\* texts typed into the answer field
NumberAnswers == { <<>>, <<" ", "C", "i", "n", "c", "o">> }

\* keys pressed in the answer field
Keys == {"Enter", "a"}

\* numbers random.randint(a, b) may return: of the numbers from a to b, the
\* two ends and those of a sample
RandInt(a, b) == {a, b} \cup {n \in {31, 2345} : a <= n /\ n <= b}

NoNumberEvent == [handler |-> "none", value |-> <<>>, raised |-> "none", converted |-> {}]

NumbersStart ==
    /\ current_number = NewNumbersState.current_number
    /\ user_answer = NewNumbersState.user_answer
    /\ min_value = NewNumbersState.min_value
    /\ max_value = NewNumbersState.max_value
    /\ feedback = NewNumbersState.feedback
    /\ is_correct = NewNumbersState.is_correct
    /\ history = NewNumbersState.history
    /\ number_event = NoNumberEvent

\* an event handler of NumbersState has run: the state it leaves, and the
\* numbers it gave to convert_to_spanish
NumberHandled(handler, value, raised, converted, s) ==
    /\ current_number' = s.current_number
    /\ user_answer' = s.user_answer
    /\ min_value' = s.min_value
    /\ max_value' = s.max_value
    /\ feedback' = s.feedback
    /\ is_correct' = s.is_correct
    /\ history' = s.history
    /\ number_event' = [handler |-> handler, value |-> value, raised |-> raised,
                        converted |-> converted]
    /\ UNCHANGED <<etlVars, storeVars, quizVars, rangeVars, threadVars>>

\* random.randint raises ValueError for an empty range
GenerateNewNumber ==
    IF min_value > max_value
    THEN NumberHandled("generate_new_number", <<>>, "ValueError", {}, NumbersState)
    ELSE \E number \in RandInt(min_value, max_value) :
            NumberHandled("generate_new_number", <<>>, "none", {},
                          generate_new_number(NumbersState, number))

SetCurrentNumber ==
    \E value \in NumberInputs :
        NumberHandled("set_current_number", value, "none", {}, set_current_number(NumbersState, value))

UpdateMin ==
    \E value \in NumberInputs :
        NumberHandled("update_min", value, "none", {}, update_min(NumbersState, value))

UpdateMax ==
    \E value \in NumberInputs :
        NumberHandled("update_max", value, "none", {}, update_max(NumbersState, value))

SetUserAnswer ==
    \E value \in NumberAnswers :
        NumberHandled("set_user_answer", value, "none", {}, set_user_answer(NumbersState, value))

CheckAnswer ==
    /\ Len(history) < MaxHistory
    /\ LET r == check_answer(NumbersState)
       IN  NumberHandled("check_answer", <<>>, r.raised, {current_number}, r.s)

HandleKeyPress ==
    /\ Len(history) < MaxHistory
    /\ \E key \in Keys :
          LET r == handle_key_press(NumbersState, key)
          IN  NumberHandled("handle_key_press", <<key>>, r.raised,
                            IF key = "Enter" /\ Strip(user_answer) # <<>> THEN {current_number} ELSE {},
                            r.s)

NumbersNext ==
    \/ GenerateNewNumber
    \/ SetCurrentNumber
    \/ UpdateMin
    \/ UpdateMax
    \/ SetUserAnswer
    \/ CheckAnswer
    \/ HandleKeyPress

-----------------------------------------------------------------------------
(* Specifications *)

vars == <<etlVars, storeVars, quizVars, rangeVars, threadVars, numberVars>>

\* transform_csv is not running
EtlIdle ==
    /\ etl_input = [exists |-> FALSE, lines |-> <<>>]
    /\ etl_pc = "idle"
    /\ etl_i = 1
    /\ etl_t = 1
    /\ current_pairs = <<>>
    /\ prev_pairs = <<>>
    /\ results = <<>>
    /\ output = <<>>

\* no store has been constructed
StoreIdle ==
    /\ csv_file = [exists |-> FALSE, lines |-> <<>>]
    /\ csv = [cached |-> FALSE, conn |-> NoConn]
    /\ built = "never"
    /\ last_call = NoCall

\* a run of transform_csv with the rule chain of main()
EtlInit == EtlStart /\ StoreIdle /\ QuizStart /\ RangesStart /\ ThreadsIdle /\ NumbersStart

SpecEtl == EtlInit /\ [][EtlNext]_vars

\* a constructed CsvTranslations and the calls of its methods
Init == EtlIdle /\ StoreStart /\ QuizStart /\ RangesStart /\ ThreadsIdle /\ NumbersStart

Next == StoreNext

Spec == Init /\ [][Next]_vars

\* a run of transform_csv whose output becomes the translations.csv of a store
SpecPipeline == EtlInit /\ [][PipelineNext]_vars

\* a constructed CsvTranslations whose file changes during its lifetime
RewriteInit ==
    /\ EtlIdle
    /\ csv_file \in RewriteFiles
    /\ csv = [cached |-> TRUE, conn |-> NoConn]
    /\ built = "never"
    /\ last_call = NoCall
    /\ QuizStart
    /\ RangesStart
    /\ ThreadsIdle
    /\ NumbersStart

RewriteNext ==
    \/ StoreNext
    \/ RewriteFile

SpecRewrite == RewriteInit /\ [][RewriteNext]_vars

\* the translation page of one thread, its store built on first use
QuizInit ==
    /\ EtlIdle
    /\ csv_file \in StoreFiles
    /\ csv = [cached |-> FALSE, conn |-> NoConn]
    /\ built = "never"
    /\ last_call = NoCall
    /\ QuizStart
    /\ RangesStart
    /\ ThreadsIdle
    /\ NumbersStart

SpecQuiz == QuizInit /\ [][QuizNext]_vars

\* the id-range settings of the page and of the dialog
RangesInit == EtlIdle /\ StoreIdle /\ QuizStart /\ RangesStart /\ ThreadsIdle /\ NumbersStart

SpecRanges == RangesInit /\ [][RangesNext]_vars

\* the threads of the server using the translation page and the dialog
ThreadsInit ==
    /\ EtlIdle
    /\ csv_file \in StoreFiles
    /\ csv = [cached |-> FALSE, conn |-> NoConn]
    /\ built = "never"
    /\ last_call = NoCall
    /\ QuizStart
    /\ RangesStart
    /\ ThreadsIdle
    /\ NumbersStart

SpecThreads == ThreadsInit /\ [][ThreadsNext]_vars

\* the numbers exercise page
NumbersInit == EtlIdle /\ StoreIdle /\ QuizStart /\ RangesStart /\ ThreadsIdle /\ NumbersStart

SpecNumbers == NumbersInit /\ [][NumbersNext]_vars


-----------------------------------------------------------------------------
(* Claims about transform_csv, checked under SpecEtl *)

\* the pairs of the working set that the rule matches, in working-set order
MatchedBy(rule, pairs) == SelectSeq(pairs, LAMBDA p : Transform(rule, p).matched)

\* C1: after each rule of the chain, if the rule matched at least one pair of
\* the working set, the new working set is exactly the concatenation, in
\* working-set order, of the results for the matched pairs (unmatched pairs
\* are dropped); if it matched none, the working set is unchanged.
C1_WorkingSetUpdate ==
    (etl_pc = "chain" /\ etl_t > 1) =>
        LET rule == transformations[etl_t - 1]
            hit == MatchedBy(rule, prev_pairs)
        IN  IF hit # <<>>
            THEN current_pairs = Concat([i \in 1..Len(hit) |-> Transform(rule, hit[i]).pairs])
            ELSE current_pairs = prev_pairs

\* C1 witness: a rule has matched some pairs of the working set and not
\* others, and an unmatched pair is gone from the new working set.
C1_Witness ==
    /\ etl_pc = "chain"
    /\ etl_t > 1
    /\ MatchedBy(transformations[etl_t - 1], prev_pairs) # <<>>
    /\ \E i \in 1..Len(prev_pairs) :
          /\ ~Transform(transformations[etl_t - 1], prev_pairs[i]).matched
          /\ \A j \in 1..Len(current_pairs) : current_pairs[j] # prev_pairs[i]

Trabajo == <<"t", "r", "a", "b", "a", "j", "o">>
Trabaja == <<"t", "r", "a", "b", "a", "j", "a">>
Rabota == <<"cy_er", "cy_a", "cy_be", "cy_o", "cy_te", "cy_a">>
Rabotya == <<"cy_er", "cy_a", "cy_be", "cy_o", "cy_te", "cy_ya">>

\* the run of transform_csv over the single row ("trabajo/a", "rabota/rabotya") has ended
TrabajoDone ==
    etl_pc = "done" /\ etl_input.lines = <<OutputHeader, RowTrabajo>>

C3_NoEmptySide ==
    etl_pc = "done" =>
        \A i \in 2..Len(output) :
            Strip(output[i][1]) # <<>> /\ Strip(output[i][2]) # <<>>

-----------------------------------------------------------------------------
(* Claims about the store, checked under Spec *)

\* the pairs load_translations is to insert, in file order: the trimmed
\* columns of the rows of two non-blank columns
InputPairs ==
    LET data == IF csv_file.lines = <<>> THEN <<>> ELSE Tail(csv_file.lines)
        kept == SelectSeq(data, LAMBDA r : Len(r) = 2 /\ Strip(r[1]) # <<>> /\ Strip(r[2]) # <<>>)
    IN  [i \in 1..Len(kept) |-> <<Strip(kept[i][1]), Strip(kept[i][2])>>]

\* the pairs of a list without the repetitions, in the order of first occurrence
FirstOccurrences(ps) ==
    LET first == {i \in 1..Len(ps) : \A j \in 1..(i - 1) : ps[j] # ps[i]}
        nth(k) == CHOOSE i \in first : Cardinality({j \in first : j < i}) = k - 1
    IN  [k \in 1..Cardinality(first) |-> ps[nth(k)]]

\* the words a link joins
LinkPair(db, t) ==
    << (CHOOSE w \in db.spanish_words : w.id = t.spanish_id).word,
       (CHOOSE w \in db.bulgarian_words : w.id = t.bulgarian_id).word >>

LinkIds(db) == {t.id : t \in db.translations}

\* C4: the store holds at most one link per distinct (source word, target
\* word) pair; after a completed build every pair of the input, however often
\* it occurs, has exactly one link; and get_translations returns no two entries
\* with the same (source_word, target_word).
C4_OneLinkPerPair ==
    /\ \A t1, t2 \in csv.conn.translations :
          LinkPair(csv.conn, t1) = LinkPair(csv.conn, t2) => t1 = t2
    /\ built = "complete" =>
          \A i \in 1..Len(InputPairs) :
              Cardinality({t \in csv.conn.translations : LinkPair(csv.conn, t) = InputPairs[i]}) = 1
    /\ (last_call.op = "get_translations" /\ last_call.raised = "none") =>
          \A i, j \in 1..Len(last_call.ret.list) :
              i # j => <<last_call.ret.list[i][2], last_call.ret.list[i][3]>>
                         # <<last_call.ret.list[j][2], last_call.ret.list[j][3]>>

\* C4 witness: a store built from an input in which a pair occurs twice has
\* answered get_translations with a non-empty list.
C4_Witness ==
    /\ built = "complete"
    /\ \E i, j \in 1..Len(InputPairs) : i < j /\ InputPairs[i] = InputPairs[j]
    /\ last_call.op = "get_translations"
    /\ last_call.raised = "none"
    /\ last_call.ret.list # <<>>

\* C5: after a completed build with N distinct pairs the link ids are exactly
\* 1..N, and the link with id k joins the k-th distinct pair in the order of
\* first occurrence (so a repeated pair consumes no id).
C5_SequentialIds ==
    built = "complete" =>
        LET distinct == FirstOccurrences(InputPairs)
        IN  /\ Cardinality(csv.conn.translations) = Len(distinct)
            /\ LinkIds(csv.conn) = 1..Len(distinct)
            /\ \A t \in csv.conn.translations : LinkPair(csv.conn, t) = distinct[t.id]

\* C5 witness: a completed build of an input in which a pair is repeated
\* before a new pair first occurs.
C5_Witness ==
    /\ built = "complete"
    /\ \E i, j, k \in 1..Len(InputPairs) :
          /\ i < j /\ j < k
          /\ InputPairs[i] = InputPairs[j]
          /\ \A m \in 1..(k - 1) : InputPairs[m] # InputPairs[k]
    /\ Cardinality(csv.conn.translations) >= 2

\* the last call was get_word_for_translation on a store whose build completed
SamplerCalled == last_call.op = "get_word_for_translation" /\ built = "complete"

\* the link ids the arguments of the last sampler call make eligible, before
\* the exclusion
EligibleIds ==
    IF last_call.args.id_ranges.given /\ last_call.args.id_ranges.ranges # <<>>
    THEN {id \in LinkIds(csv.conn) : InRanges(id, last_call.args.id_ranges.ranges)}
    ELSE LinkIds(csv.conn)

\* the word of the link id on the side of a language
WordOfLink(db, id, lang) ==
    LET t == CHOOSE x \in db.translations : x.id = id
    IN  (CHOOSE w \in WordTable(db, lang) : w.id = SideId(t, lang)).word

\* C6: when id_ranges is given and non-empty and a non-excluded link id lies
\* in the ranges, the sampler returns a pair (link_id, word) with link_id an
\* existing link id inside the ranges and word that link's word on the
\* direction side.
C6_SampleInsideRanges ==
    (/\ SamplerCalled
     /\ last_call.args.id_ranges.given
     /\ last_call.args.id_ranges.ranges # <<>>
     /\ EligibleIds \ last_call.args.excluded.ids # {})
    => /\ last_call.raised = "none"
       /\ last_call.ret.kind = "tuple"
       /\ last_call.ret.id \in EligibleIds
       /\ last_call.ret.word = WordOfLink(csv.conn, last_call.ret.id, last_call.args.source_lang)

\* C7: called with an exclusion set that leaves an eligible link id, the
\* sampler returns a link whose id is not excluded.
C7_SampleNotExcluded ==
    (/\ SamplerCalled
     /\ last_call.args.excluded.passed
     /\ EligibleIds \ last_call.args.excluded.ids # {})
    => /\ last_call.raised = "none"
       /\ last_call.row \in LinkIds(csv.conn) \ last_call.args.excluded.ids

\* C8: when no eligible link id is left and the store has a link, the sampler
\* does not fail and returns a link of the store.
C8_FallbackToAnyLink ==
    (/\ SamplerCalled
     /\ LinkIds(csv.conn) # {}
     /\ EligibleIds \ last_call.args.excluded.ids = {})
    => /\ last_call.raised = "none"
       /\ last_call.row \in LinkIds(csv.conn)

\* C9: on a built store, whatever its content and the value of id_ranges, the
\* sampler returns normally.  Stated for the calls that pass no exclusion set:
\* a call that passes one fails before the body runs (see C7).
C9_SamplerReturns ==
    (SamplerCalled /\ ~last_call.args.excluded.passed) => last_call.raised = "none"

-----------------------------------------------------------------------------
(* Claims about the quiz round, checked under SpecQuiz *)

\* C10: over a store built from the file, check_translation on a presented,
\* unchecked word records exactly one attempt at the head of attempts, with
\* the current link id, marks the round checked and does not sample;
\* check_translation on a checked or unset round records no attempt and ends
\* through next_word with the sampler called, user_input empty and the round
\* unchecked.
C10_RoundStateMachine ==
    (last_event.handler = "check_translation" /\ built = "complete") =>
        IF last_event.was_checked
        THEN /\ last_event.raised = "none"
             /\ Len(attempts) = last_event.attempts_before
             /\ last_call.op = "get_word_for_translation"
             /\ last_call.raised = "none"
             /\ user_input = <<>>
             /\ ~has_checked_translation
        ELSE /\ last_event.raised = "none"
             /\ Len(attempts) = last_event.attempts_before + 1
             /\ attempts[1].translation_id = current_translation_id
             /\ last_call.op # "get_word_for_translation"
             /\ has_checked_translation

\* the build of the store ended with an exception
BuildFailed == built \notin {"never", "complete"}

\* C11: after a build that failed part-way no word or link of it is in the
\* store, and load_translations on the store of the failed build never
\* returns normally as if the store were loaded.
C11_NoPartialStore ==
    BuildFailed =>
        /\ csv.conn.spanish_words = {}
        /\ csv.conn.bulgarian_words = {}
        /\ csv.conn.translations = {}
        /\ last_call.op = "load_translations" => last_call.raised # "none"

\* the event handlers of the page that obtain the store
StoreHandlers == {"check_translation", "next_word", "change_direction"}

\* C12: when translations.csv is missing no store object is cached or
\* returned, so no query ever runs against a store that was not built, and a
\* handler that asks for the store once the file exists has it built.
C12_FailFast ==
    /\ [](csv.cached => csv.conn.open)
    /\ [](last_call.raised # NoConnError)
    /\ [][(/\ csv_file.exists
           /\ last_event' # last_event
           /\ last_event'.handler \in StoreHandlers) => built' # "never"]_vars

-----------------------------------------------------------------------------
(* Claims about the store accessors, checked under SpecThreads *)

\* the store objects cached for a thread, by either module
CachedIds(thread) == {thread_state[m][thread].id : m \in {x \in Modules : thread_state[x][thread].cached}}

\* C13: a thread has at most one store instance, whichever module asks for
\* it; once a thread has an instance every use in that thread gets that
\* instance and constructs none; and no instance is cached for two threads.
C13_OneStorePerThread ==
    /\ [](\A t \in Threads : Cardinality(CachedIds(t)) <= 1)
    /\ [](\A t1, t2 \in Threads : t1 # t2 => CachedIds(t1) \cap CachedIds(t2) = {})
    /\ [][(last_use' # last_use /\ CachedIds(last_use'.thread) # {})
            => (~last_use'.constructed /\ last_use'.id \in CachedIds(last_use'.thread))]_vars

-----------------------------------------------------------------------------
(* Claims about the lifetime of a store, checked under SpecRewrite *)

\* C14: once load_translations has completed, no call of a method of the
\* store changes the word dictionaries or the link table: a further
\* load_translations returns normally and loads nothing, and the queries
\* leave the three tables as they are.
C14_ReadOnlyAfterBuild ==
    [][built = "complete" =>
          /\ csv'.conn = csv.conn
          /\ (last_call' # last_call /\ last_call'.op = "load_translations")
                => last_call'.raised = "none"]_vars

\* C14 witness: load_translations was called on a built store after
\* translations.csv had been replaced by a file with other pairs, and the
\* store still holds the links of its build.
C14_Witness ==
    /\ built = "complete"
    /\ last_call.op = "load_translations"
    /\ csv.conn.translations # {}
    /\ csv_file.exists
    /\ InputPairs # <<>>
    /\ \A t \in csv.conn.translations : LinkPair(csv.conn, t) # InputPairs[1]

-----------------------------------------------------------------------------
(* Claims about the tool and the store together, checked under SpecPipeline *)

\* the elements of a list
Elems(list) == {list[i] : i \in 1..Len(list)}

\* a pair that load_translations inserts (csv.py:35-39 skips the others)
Loaded(pair) == Strip(pair[1]) # <<>> /\ Strip(pair[2]) # <<>>

\* C15: for every pair (s, t) that transform_csv wrote and load_translations
\* loaded into the store, get_bulgarian_translations(s) contains t and
\* get_spanish_translations(t) contains s.
C15_RoundTrip ==
    (/\ etl_pc = "done"
     /\ built = "complete"
     /\ last_call.op \in {"get_bulgarian_translations", "get_spanish_translations"}
     /\ last_call.raised = "none")
    => \A i \in 2..Len(output) :
          /\ (/\ Loaded(output[i])
              /\ last_call.op = "get_bulgarian_translations"
              /\ last_call.args[1] = output[i][1])
             => output[i][2] \in Elems(last_call.ret.list)
          /\ (/\ Loaded(output[i])
              /\ last_call.op = "get_spanish_translations"
              /\ last_call.args[1] = output[i][2])
             => output[i][1] \in Elems(last_call.ret.list)

\* C15 witness: the source of a written pair that holds a comma, and so was
\* quoted in the file, has been looked up and its target found.
C15_Witness ==
    /\ etl_pc = "done"
    /\ built = "complete"
    /\ last_call.op = "get_bulgarian_translations"
    /\ \E i \in 2..Len(output) :
          /\ Contains(output[i][1], <<",">>)
          /\ last_call.args[1] = output[i][1]
          /\ output[i][2] \in Elems(last_call.ret.list)

-----------------------------------------------------------------------------
(* Claims about get_translations, checked under Spec *)

\* the tuple get_translations is to return for a link
LinkTuple(db, t, source_lang) ==
    <<t.id, WordOfLink(db, t.id, source_lang), WordOfLink(db, t.id, OtherLang(source_lang))>>

\* the last call was a get_translations that returned a list
ListedLinks == last_call.op = "get_translations" /\ last_call.raised = "none"

-----------------------------------------------------------------------------
(* Claims about the id-range settings, checked under SpecRanges *)

\* the elements of a range string: its comma-separated parts, trimmed
RangeElements(s) == StripAll(Split(s, <<",">>))

\* an element "start-end" of two decimal numbers with 1 <= start <= end
IsPlainRange(e) ==
    /\ Cardinality(Occurrences(e, <<"-">>)) = 1
    /\ LET parts == SplitFirst(e, <<"-">>)
       IN  /\ \A k \in 1..2 : parts[k] # <<>> /\ \A i \in 1..Len(parts[k]) : IsDigit(parts[k][i])
           /\ 1 <= DigitsValue(parts[1])
           /\ DigitsValue(parts[1]) <= DigitsValue(parts[2])

\* the interval an element "start-end" denotes
PlainRange(e) ==
    IdRange(DigitsValue(SplitFirst(e, <<"-">>)[1]), DigitsValue(SplitFirst(e, <<"-">>)[2]))

\* a comma-separated list of elements "start-end" with 1 <= start <= end
IsRangeList(s) ==
    Strip(s) # <<>> /\ \A i \in 1..Len(RangeElements(s)) : IsPlainRange(RangeElements(s)[i])

\* the intervals of such a list, in input order
RangeList(s) == [i \in 1..Len(RangeElements(s)) |-> PlainRange(RangeElements(s)[i])]

\* the handlers of the page, and of the dialog, that validate the range string
PageValidated == last_event.handler \in {"validate_translation_ranges", "apply_translation_ranges"}

DialogValidated == last_event.handler = "dialog.apply_translation_ranges"

BrokenRules(e) ==
    LET parts == SplitFirst(e, <<"-">>)
    IN  IF ~Contains(e, <<"-">>) THEN {MsgExpectedFormat}
        ELSE IF ~IsInt(parts[1]) \/ ~IsInt(parts[2]) THEN {MsgExpectedIntegers}
        ELSE (IF Int_(parts[1]) > Int_(parts[2]) THEN {MsgStartAfterEnd} ELSE {})
             \cup (IF Int_(parts[1]) <= 0 \/ Int_(parts[2]) <= 0 THEN {MsgNotPositive} ELSE {})

\* the non-empty elements of a range string that break a rule, in input order
OffendingElements(s) == SelectSeq(RangeElements(s), LAMBDA e : e # <<>> /\ BrokenRules(e) # {})

\* the element as typed or, when both bounds are integers, as "start-end" of
\* the two integers read
ElementNames(e) ==
    LET parts == SplitFirst(e, <<"-">>)
    IN  {e} \cup (IF Contains(e, <<"-">>) /\ IsInt(parts[1]) /\ IsInt(parts[2])
                  THEN {IntStr(Int_(parts[1])) \o <<"-">> \o IntStr(Int_(parts[2]))}
                  ELSE {})

\* the message names an offending element of s and a rule that element breaks
NamesOffender(err, s) ==
    \E i \in 1..Len(OffendingElements(s)) :
        /\ \E name \in ElementNames(OffendingElements(s)[i]) : Contains(err, name)
        /\ \E rule \in BrokenRules(OffendingElements(s)[i]) : Contains(err, <<rule>>)

\* C18: for a range string with an element that has no dash, a non-integer
\* bound, start > end or a bound <= 0, validation fails with a non-empty
\* message that names the offending element and the rule or format it breaks.
\* On the page and in the dialog.
C18_InvalidRanges ==
    /\ (PageValidated /\ Strip(translation_ranges) # <<>> /\ OffendingElements(translation_ranges) # <<>>) =>
          /\ translation_ranges_error # <<>>
          /\ NamesOffender(translation_ranges_error, translation_ranges)
    /\ (DialogValidated /\ Strip(dialog.translation_ranges) # <<>>
            /\ OffendingElements(dialog.translation_ranges) # <<>>) =>
          /\ dialog.translation_ranges_error # <<>>
          /\ NamesOffender(dialog.translation_ranges_error, dialog.translation_ranges)

\* C18 witness: the page has applied a string whose second element has no
\* dash, after a valid first element.
C18_Witness ==
    /\ last_event.handler = "apply_translation_ranges"
    /\ Len(RangeElements(translation_ranges)) = 2
    /\ IsPlainRange(RangeElements(translation_ranges)[1])
    /\ BrokenRules(RangeElements(translation_ranges)[2]) = {MsgExpectedFormat}
    /\ Contains(translation_ranges_error, RangeElements(translation_ranges)[2])


\* a range string with an element that breaks a rule
HasOffender(s) == Strip(s) # <<>> /\ OffendingElements(s) # <<>>

\* C19: a range string with an invalid element is rejected as a whole: the
\* step of the page or of the dialog that validates it leaves parsed_id_ranges
\* as it was, applies none of its valid elements, and changes nothing but the
\* error message.
C19_RejectedWhole ==
    [][/\ (PageValidated' /\ HasOffender(translation_ranges)) =>
              /\ parsed_id_ranges' = parsed_id_ranges
              /\ translation_ranges' = translation_ranges
              /\ show_settings' = show_settings
              /\ translation_ranges_error' # <<>>
       /\ (DialogValidated' /\ HasOffender(dialog.translation_ranges)) =>
              /\ dialog'.parsed_id_ranges = dialog.parsed_id_ranges
              /\ dialog'.translation_ranges = dialog.translation_ranges
              /\ dialog'.translation_ranges_error # <<>>]_vars

\* C19 witness: the page has rejected a string whose first element is a valid
\* range and whose second is not, while the ranges applied before are others.
C19_Witness ==
    /\ last_event.handler = "apply_translation_ranges"
    /\ HasOffender(translation_ranges)
    /\ IsPlainRange(RangeElements(translation_ranges)[1])
    /\ parsed_id_ranges.given
    /\ parsed_id_ranges.ranges # <<>>
    /\ parsed_id_ranges.ranges[1] # PlainRange(RangeElements(translation_ranges)[1])
    /\ translation_ranges_error # <<>>

-----------------------------------------------------------------------------
(* Claim about the rows transform_csv skips, checked under SpecEtl *)

\* the pairs one two-column row ends the chain with, from rule k on
RECURSIVE ChainFrom(_, _)
ChainFrom(k, pairs) ==
    IF k > Len(transformations) THEN pairs
    ELSE ChainFrom(k + 1, ApplyRule(transformations[k], pairs))

\* the data rows of the input that have two columns, in input order
TwoColumnRows == SelectSeq(Tail(etl_input.lines), LAMBDA row : Len(row) = 2)

\* the data rows of the input up to row i, header excluded
RowsBefore(i) == SubSeq(etl_input.lines, 2, i - 1)

\* C20: transform_csv skips every row whose column count is not two: the
\* output is the output of the two-column rows alone, in input order, so the
\* row contributes no pair and the rows after it are processed; and the run
\* ends in no error but a missing file or a missing header row.
C20_SkipsOtherRows ==
    /\ etl_pc \in {"start", "rows", "chain", "done", "FileNotFoundError", "StopIteration"}
    /\ etl_pc = "FileNotFoundError" => ~etl_input.exists
    /\ etl_pc = "StopIteration" => etl_input.lines = <<>>
    /\ etl_pc = "rows" =>
          results = Concat([i \in 1..Len(SelectSeq(RowsBefore(etl_i), LAMBDA row : Len(row) = 2)) |->
                               ChainFrom(1, << <<SelectSeq(RowsBefore(etl_i), LAMBDA row : Len(row) = 2)[i][1],
                                                 SelectSeq(RowsBefore(etl_i), LAMBDA row : Len(row) = 2)[i][2]>> >>)])
    /\ etl_pc = "done" =>
          output = <<OutputHeader>> \o
                   FilterResults(Concat([i \in 1..Len(TwoColumnRows) |->
                                            ChainFrom(1, << <<TwoColumnRows[i][1], TwoColumnRows[i][2]>> >>)]))

\* C20 witness: the run has ended on a file whose first data row has three
\* columns and whose second has two and reached the output.
C20_Witness ==
    /\ etl_pc = "done"
    /\ Len(etl_input.lines) = 3
    /\ Len(etl_input.lines[2]) = 3
    /\ Len(etl_input.lines[3]) = 2
    /\ Len(output) > 1

-----------------------------------------------------------------------------
(* Claims about the build and the queries of the store, checked under Spec *)

\* the data rows of translations.csv that have two columns, in file order
WellFormedRows == SelectSeq(Tail(csv_file.lines), LAMBDA row : Len(row) = 2)

\* C21: a build from a file with a header row ends without error and loads
\* every row of two columns, whatever rows of another width stand among them.
C21_LoadSkipsOtherRows ==
    (csv_file.exists /\ csv_file.lines # <<>> /\ built # "never") =>
        /\ built = "complete"
        /\ csv.conn = LoadRows(init_db, WellFormedRows).conn

-----------------------------------------------------------------------------
(* Claims about the rules of the chain, checked under SpecEtl *)

\* the source ends in the slash shorthand 'o/a' or the comma-dash shorthand ', -a'
HasGenderShorthand(source) ==
    EndsWith(source, <<"o", "/", "a">>) \/ EndsWith(source, <<",", " ", "-", "a">>)

\* the masculine form: the source without the shorthand for the feminine
Masculine(source) ==
    IF EndsWith(source, <<"o", "/", "a">>) THEN DropLast(source, 2) ELSE DropLast(source, 4)

\* the feminine form: the masculine form with 'a' for its last letter
Feminine(source) == DropLast(Masculine(source), 1) \o <<"a">>

Variado == <<"v", "a", "r", "i", "a", "d", "o">>
Variada == <<"v", "a", "r", "i", "a", "d", "a">>
Cansado == <<"c", "a", "n", "s", "a", "d", "o">>
Cansada == <<"c", "a", "n", "s", "a", "d", "a">>

\* the index of the gendered-suffix rule in the chain
GenderRule == CHOOSE k \in 1..Len(transformations) : transformations[k] = "split_spanish_gender_suffix"

\* C22: the gendered-suffix rule turns a pair whose source ends in 'o/a' or
\* ', -a' and whose target is not the placeholder into exactly the two pairs
\* (masculine, target), (feminine, target), and the whole chain gives
\* ("variado", t), ("variada", t) for ("variado/a", t) and ("cansado", u),
\* ("cansada", u) for ("cansado, -a", u).
C22_GenderedSuffix ==
    /\ (etl_pc = "chain" /\ etl_t = GenderRule + 1) =>
          \A i \in 1..Len(prev_pairs) :
              (HasGenderShorthand(prev_pairs[i][1]) /\ prev_pairs[i][2] # FemininePlaceholder) =>
                  Transform("split_spanish_gender_suffix", prev_pairs[i]) =
                      Match(<< <<Masculine(prev_pairs[i][1]), prev_pairs[i][2]>>,
                               <<Feminine(prev_pairs[i][1]), prev_pairs[i][2]>> >>)
    /\ (etl_pc = "chain" /\ etl_t = GenderRule + 1 /\ prev_pairs \in {<<RowVariado>>, <<RowCansado>>}) =>
          current_pairs = << <<Masculine(prev_pairs[1][1]), prev_pairs[1][2]>>,
                             <<Feminine(prev_pairs[1][1]), prev_pairs[1][2]>> >>
    /\ (etl_pc = "done" /\ etl_input.lines = <<OutputHeader, RowVariado>>) =>
          output = <<OutputHeader, <<Variado, RowVariado[2]>>, <<Variada, RowVariado[2]>> >>
    /\ (etl_pc = "done" /\ etl_input.lines = <<OutputHeader, RowCansado>>) =>
          output = <<OutputHeader, <<Cansado, RowCansado[2]>>, <<Cansada, RowCansado[2]>> >>

\* C22 witness: the run over the single row ("cansado, -a", u) has written
\* its output of two pairs.
C22_Witness ==
    etl_pc = "done" /\ etl_input.lines = <<OutputHeader, RowCansado>> /\ Len(output) = 3


\* the position of the k-th occurrence of the one-character delimiter d in s;
\* 0 for k = 0 and Len(s) + 1 past the last occurrence
DelimiterAt(s, d, k) ==
    IF k = 0 THEN 0
    ELSE IF k > Cardinality(Occurrences(s, d)) THEN Len(s) + 1
    ELSE CHOOSE i \in Occurrences(s, d) : Cardinality({j \in Occurrences(s, d) : j < i}) = k - 1

\* the k-th d-separated segment of s, trimmed
Segment(s, d, k) == Strip(SubSeq(s, DelimiterAt(s, d, k - 1) + 1, DelimiterAt(s, d, k) - 1))

\* the number of d-separated segments of s
SegmentCount(s, d) == Cardinality(Occurrences(s, d)) + 1

\* the delimiter rules of the chain and their delimiters
DelimiterRules == {"split_by_delimiter(',')", "split_by_delimiter('/')"}

DelimiterOf(rule) == IF rule = "split_by_delimiter(',')" THEN <<",">> ELSE <<"/">>

Perro == <<"p", "e", "r", "r", "o">>
Gato == <<"g", "a", "t", "o">>
Kuche == <<"cy_ka", "cy_u", "cy_che", "cy_ie">>
Kotka == <<"cy_ka", "cy_o", "cy_te", "cy_ka", "cy_a">>

\* C23: split_by_delimiter(d) matches a pair exactly when d occurs in both
\* sides and both sides have the same number of d-separated segments, and
\* then returns the positional zip of the trimmed segments; so
\* ("perro, gato", "kuche, kotka") gives ("perro", "kuche"), ("gato", "kotka").
C23_ZipSplit ==
    (etl_pc = "chain" /\ etl_t > 1 /\ transformations[etl_t - 1] \in DelimiterRules) =>
        LET rule == transformations[etl_t - 1]
            d == DelimiterOf(rule)
        IN  /\ \A i \in 1..Len(prev_pairs) :
                  LET source == prev_pairs[i][1]
                      target == prev_pairs[i][2]
                      result == Transform(rule, prev_pairs[i])
                  IN  /\ result.matched <=>
                            /\ Contains(source, d)
                            /\ Contains(target, d)
                            /\ SegmentCount(source, d) = SegmentCount(target, d)
                      /\ result.matched =>
                            result.pairs = [k \in 1..SegmentCount(source, d) |->
                                               <<Segment(source, d, k), Segment(target, d, k)>>]
            /\ (rule = "split_by_delimiter(',')" /\ prev_pairs = <<RowPerroGato>>) =>
                  current_pairs = << <<Perro, Kuche>>, <<Gato, Kotka>> >>

\* C23 witness: the comma rule has split ("perro, gato", "kuche, kotka").
C23_Witness ==
    /\ etl_pc = "chain"
    /\ etl_t > 1
    /\ transformations[etl_t - 1] = "split_by_delimiter(',')"
    /\ prev_pairs = <<RowPerroGato>>
    /\ Len(current_pairs) = 2


\* the noise placeholders '-a' and 'a' (Cyrillic a)
IsNoise(target) == target = <<"-", "cy_a">> \/ target = <<"cy_a">>

\* the positions of the result list whose pair has no noise target
KeptPositions == {i \in 1..Len(results) : ~IsNoise(results[i][2])}

\* the k-th of those positions, in ascending order
KeptPosition(k) ==
    CHOOSE i \in KeptPositions : Cardinality({j \in KeptPositions : j < i}) = k - 1

\* C24: no pair transform_csv writes has a noise placeholder for target, and
\* every other pair of the result list is written once per occurrence, in the
\* order of the result list, after the header row.
C24_PostFilter ==
    etl_pc = "done" =>
        /\ Head(output) = OutputHeader
        /\ \A k \in 2..Len(output) : ~IsNoise(output[k][2])
        /\ Len(output) = 1 + Cardinality(KeptPositions)
        /\ \A k \in 1..Cardinality(KeptPositions) : output[k + 1] = results[KeptPosition(k)]

\* C24 witness: the result list of a finished run held a pair with the target
\* 'a' and, after it, a pair that was written.
C24_Witness ==
    /\ etl_pc = "done"
    /\ \E i, j \in 1..Len(results) :
          i < j /\ results[i][2] = <<"cy_a">> /\ ~IsNoise(results[j][2])
    /\ Len(output) > 1


\* the two lookups and the language of the word each is given
LookupOps == {"get_bulgarian_translations", "get_spanish_translations"}

LookupLang(op) == IF op = "get_bulgarian_translations" THEN "es" ELSE "bg"

\* the words of the other language that a link joins to the word
LinkedWords(db, lang, word) ==
    {t.word : t \in {u \in WordTable(db, OtherLang(lang)) :
                \E s \in WordTable(db, lang), tr \in db.translations :
                    /\ s.word = word
                    /\ SideId(tr, lang) = s.id
                    /\ SideId(tr, OtherLang(lang)) = u.id}}

\* C25: on a store with its tables, the lookup of a word that is not in the
\* store returns the empty list and raises nothing, and the lookup of a known
\* word returns exactly the words of the other language linked to it, each once.
C25_Lookup ==
    (last_call.op \in LookupOps /\ csv.conn.open) =>
        LET lang == LookupLang(last_call.op)
            word == last_call.args[1]
        IN  /\ last_call.raised = "none"
            /\ last_call.ret.kind = "list"
            /\ {last_call.ret.list[i] : i \in 1..Len(last_call.ret.list)} = LinkedWords(csv.conn, lang, word)
            /\ Len(last_call.ret.list) = Cardinality(LinkedWords(csv.conn, lang, word))
            /\ (\A w \in WordTable(csv.conn, lang) : w.word # word) => last_call.ret.list = <<>>

\* C25 witness: a store with links has answered the lookup of an unknown word.
C25_Witness ==
    /\ last_call.op \in LookupOps
    /\ csv.conn.open
    /\ csv.conn.translations # {}
    /\ \A w \in WordTable(csv.conn, LookupLang(last_call.op)) : w.word # last_call.args[1]
    /\ last_call.ret.kind = "list"
    /\ last_call.ret.list = <<>>


\* C26: the list get_translations returns is in ascending order of the id each
\* tuple carries, the link id.
C26_OrderedByLinkId ==
    (last_call.op = "get_translations" /\ last_call.ret.kind = "list") =>
        \A i, j \in 1..Len(last_call.ret.list) :
            i < j => last_call.ret.list[i][1] < last_call.ret.list[j][1]

-----------------------------------------------------------------------------
(* Claim about the working set of transform_csv, checked under SpecEtl *)

\* C27: the working set of a row is never empty during the chain: a rule
\* that matches a pair returns a non-empty list, and the working set is
\* replaced only by a non-empty list; so the result list holds at least one
\* pair for each row of two columns read so far.
C27_WorkingSetNonEmpty ==
    /\ etl_pc = "chain" =>
          /\ current_pairs # <<>>
          /\ etl_t > 1 =>
                \A i \in 1..Len(prev_pairs) :
                    Transform(transformations[etl_t - 1], prev_pairs[i]).matched =>
                        Transform(transformations[etl_t - 1], prev_pairs[i]).pairs # <<>>
    /\ etl_pc \in {"rows", "done"} =>
          Len(results) >= Len(SelectSeq(RowsBefore(etl_i), LAMBDA row : Len(row) = 2))

\* C27 witness: a rule has matched no pair of the working set, which is kept,
\* after an earlier row has added its pairs to the result list.
C27_Witness ==
    /\ etl_pc = "chain"
    /\ etl_t > 1
    /\ MatchedBy(transformations[etl_t - 1], prev_pairs) = <<>>
    /\ current_pairs = prev_pairs
    /\ current_pairs # <<>>
    /\ results # <<>>

-----------------------------------------------------------------------------
(* Claims about the content of the store, checked under Spec and SpecThreads *)

\* every word of the table is non-empty, trimmed and on a link
WordsLinked(db, lang) ==
    \A w \in WordTable(db, lang) :
        /\ w.word # <<>>
        /\ Strip(w.word) = w.word
        /\ \E tr \in db.translations : SideId(tr, lang) = w.id

\* every link has its word on both sides
LinksRefer(db) ==
    \A tr \in db.translations :
        /\ \E w \in db.spanish_words : w.id = tr.spanish_id
        /\ \E w \in db.bulgarian_words : w.id = tr.bulgarian_id

\* C28: in a store with its tables, each word of either dictionary is
\* non-empty, trimmed and an endpoint of a link, and each link refers to a
\* word on both sides; the link table is empty exactly when both dictionaries
\* are; and get_word_for_translation never returns a word found by its last
\* step, the one that reads a word table alone.
C28_StoreWellFormed ==
    /\ csv.conn.open =>
          /\ WordsLinked(csv.conn, "es")
          /\ WordsLinked(csv.conn, "bg")
          /\ LinksRefer(csv.conn)
          /\ csv.conn.translations = {} <=>
                (csv.conn.spanish_words = {} /\ csv.conn.bulgarian_words = {})
    /\ (last_call.op = "get_word_for_translation" /\ last_call.ret.kind = "str") =>
          last_call.row # 0

\* C28 witness: a store built from a file with a blank-sided row and a padded
\* row holds links, and get_word_for_translation has returned a word.
C28_Witness ==
    /\ built = "complete"
    /\ csv.conn.translations # {}
    /\ \E k \in 2..Len(csv_file.lines) : csv_file.lines[k][2] = <<>>
    /\ \E k \in 2..Len(csv_file.lines) : Strip(csv_file.lines[k][1]) # csv_file.lines[k][1]
    /\ last_call.op = "get_word_for_translation"
    /\ last_call.ret.kind = "str"


\* the stores cached by a module for a thread that have been loaded
LoadedStores ==
    {s \in {thread_state[m][t] : m \in Modules, t \in Threads} : s.cached /\ s.conn.open}

\* the pairs (spanish word, bulgarian word) that the link of an id joins
LinkedPair(db, id) ==
    {<<x[1].word, x[2].word>> :
        x \in {y \in db.spanish_words \X db.bulgarian_words :
                  \E tr \in db.translations :
                      tr.id = id /\ tr.spanish_id = y[1].id /\ tr.bulgarian_id = y[2].id}}

-----------------------------------------------------------------------------
(* Claim about the numbers exercise, checked under SpecNumbers *)

\* the handlers that read a number from a string
NumberFields == {"update_min", "update_max", "set_current_number"}

\* the string is no integer, or an integer outside 0..9999
OutOfRange(value) == ~IsInt(value) \/ Int_(value) < 0 \/ Int_(value) > MaxNumber

\* C30: after any sequence of events of NumbersState,
\* 0 <= min_value <= max_value <= 9999 and 0 <= current_number <= 9999; an
\* input that is no integer or is out of range leaves the state unchanged;
\* generate_new_number never meets an empty range; and convert_to_spanish is
\* applied only to numbers of 0..9999, for each of which it returns a text.
C30_NumbersInRange ==
    /\ \A n \in 0..MaxNumber : convert_to_spanish(n).raised = "none"
    /\ [](/\ 0 <= min_value
          /\ min_value <= max_value
          /\ max_value <= MaxNumber
          /\ 0 <= current_number
          /\ current_number <= MaxNumber)
    /\ [](/\ number_event.raised = "none"
          /\ \A n \in number_event.converted : 0 <= n /\ n <= MaxNumber)
    /\ [][(number_event'.handler \in NumberFields /\ OutOfRange(number_event'.value))
             => NumbersState' = NumbersState]_vars

\* C30 witness: with the range narrowed from below, a number drawn inside it
\* has been converted by check_answer.
C30_Witness ==
    /\ number_event.handler = "check_answer"
    /\ number_event.converted = {2345}
    /\ min_value = 5
    /\ max_value = MaxNumber
    /\ history # <<>>
    /\ history[1].correct_answer = convert_to_spanish(2345).text

=============================================================================
